---- MODULE Spec2Model ----
(***************************************************************************)
(* Telemachus: the UK meetings index (build_uk_index.py), its loader and   *)
(* the search paths of eu_lobbying_core.py, the jurisdiction registry of   *)
(* __init__.py and the query entry point run_search of app.py.             *)
(*                                                                         *)
(* Text is modelled as a tuple of one-character strings, so that lower(),  *)
(* split() and the substring test `a in b` are computed, not assumed.      *)
(***************************************************************************)
EXTENDS Integers, Sequences, FiniteSets, TLC

VARIABLES
    \* ---- deduplication step (build_index step 5, live searches)
    all_meetings,      \* the records handed to the step, in input order
    unique_meetings,   \* the step's output
    rerun_meetings,    \* the output of the step applied to its own output
    dedup_pc,          \* "input" | "build" | "live" | "senior" | "rerun"
    \* ---- process-wide index cache and its sources
    uk_index_cache,    \* _uk_index_cache: [data, loaded]
    local_file,        \* uk_meetings_index.json beside the module
    remote_index,      \* what UK_INDEX_URL answers
    live_corpus,       \* the CSV documents the live search can download
    calls,             \* number of top-level calls made so far
    last_call,         \* record of the most recent top-level call
    first_snapshot,    \* the first snapshot a load_uk_index call returned
    \* ---- search_all (__init__.py)
    sa_requested,      \* the jurisdictions argument
    sa_skip_slow,      \* the skip_slow argument
    sa_i,              \* position of the for loop in sa_requested
    sa_results,        \* the results dict built so far
    sa_outcome,        \* what each search_fn did when it was called
    sa_pc,             \* "loop" | "returned"
    \* ---- run_search (app.py)
    loaded_snapshot,   \* the snapshot as it was when load_uk_index cached it
    handed_out,        \* the last index result returned to a caller: its record
                       \* positions and the records as the caller saw them
    run_pc,            \* "idle" | "returned" | "raised"
    run_args,          \* the arguments of the last run_search call
    run_results,       \* the dict the last run_search call returned
    run_failed,        \* the jurisdictions whose search raised in that call
    run_searched,      \* the jurisdictions whose search was called in it
    \* ---- build_index (build_uk_index.py) and the snapshot file it writes
    b_docs,            \* the CSV documents the build discovers, in order
    b_i,               \* position of the step 4 loop in b_docs
    b_all,             \* all_meetings
    b_index,           \* the index dict of step 6, None before it
    b_chunks,          \* the chunks json.dump has still to write
    b_pc,              \* "resolve" | "parse" | "save" | "writing" | "done" |
                       \* "raised" | "interrupted"
    index_file,        \* the text of uk_meetings_index.json, as chunks
    previous_file,     \* the text the file held before the build
    q_log,             \* what the last query of the built snapshot returned
    \* ---- one search_uk_index call on a loaded snapshot
    agg_index,         \* the snapshot load_uk_index returns
    agg_term,          \* the search term
    agg_ret,           \* what search_uk_index did: [outcome, ret, refs]
    agg_pc,            \* "idle" | "done"
    \* ---- the recency window of the live search
    win_now,           \* datetime.now(), as a day number
    win_pubs,          \* what discover_uk_transparency_publications returns
    win_n,             \* the number of months the caller chose
    win_ret,           \* the call's outcome and the publications it processed
    win_pc,            \* "idle" | "done"
    \* ---- load_uk_index called from several threads of one process
    con_cache,         \* _uk_index_cache: [data, loaded]
    con_local,         \* uk_meetings_index.json beside the module
    con_remote,        \* what UK_INDEX_URL answers
    con_pc,            \* where each thread is in load_uk_index
    con_ret,           \* what each thread's call returned
    con_loads,         \* how often a source was read into a snapshot object
    \* ---- discovery of publications (live searches and build_index)
    dsc_kind,          \* "transparency" | "senior_officials" | "build"
    dsc_now,           \* the clock, in hours
    dsc_cache,         \* the publications cache file of the live discovery
    dsc_calls,         \* number of discovery calls started
    dsc_pc,            \* "idle" | "paging" | "save" | "done" | "raised"
    dsc_start,         \* start, the offset of the next page
    dsc_pubs,          \* publications, the list found so far
    dsc_requests,      \* page requests made by the current call
    dsc_failed,        \* whether a page request of the current call failed
    dsc_ret,           \* what the current call returned
    dsc_prev,          \* the call before the current one
    \* ---- fetching the CSV documents (live search and build_index)
    f_kind,            \* "live" | "build"
    f_all,             \* all_csv_urls / all_csvs: (dept, url) as discovered
    f_unique,          \* unique_csv_urls / unique_csvs
    f_i,               \* position of the loop in f_unique
    f_files,           \* the cache directory: cache key -> file
    f_fetched,         \* the URLs requested, in order
    f_parsed,          \* per URL processed, the content that was parsed
    f_seen,            \* what a concurrent search read from a cache file
    f_pc               \* "dedup" | "next" | "write" | "parse" | "done"

dedupVars == <<all_meetings, unique_meetings, rerun_meetings, dedup_pc>>
ukVars == <<uk_index_cache, local_file, remote_index, live_corpus, calls,
            last_call, first_snapshot>>
saVars == <<sa_requested, sa_skip_slow, sa_i, sa_results, sa_outcome, sa_pc>>
runVars == <<loaded_snapshot, handed_out, run_pc, run_args, run_results,
             run_failed, run_searched>>
buildVars == <<b_docs, b_i, b_all, b_index, b_chunks, b_pc, index_file,
               previous_file, q_log>>
aggVars == <<agg_index, agg_term, agg_ret, agg_pc>>
winVars == <<win_now, win_pubs, win_n, win_ret, win_pc>>
conVars == <<con_cache, con_local, con_remote, con_pc, con_ret, con_loads>>
dscVars == <<dsc_kind, dsc_now, dsc_cache, dsc_calls, dsc_pc, dsc_start, dsc_pubs,
             dsc_requests, dsc_failed, dsc_ret, dsc_prev>>
fetchVars == <<f_kind, f_all, f_unique, f_i, f_files, f_fetched, f_parsed, f_seen,
               f_pc>>
finalVars == <<dscVars, fetchVars>>
laterVars == <<buildVars, aggVars, winVars, conVars, finalVars>>
vars == <<dedupVars, ukVars, saVars, runVars, laterVars>>

\* Python values that are no dict are records too, so that any two compare
None == [py_none |-> TRUE]
Raised(name) == [exception |-> name]

(***************************************************************************)
(* Text                                                                    *)
(***************************************************************************)
UpperCase == <<"A", "B", "C", "D", "E", "F", "G", "H", "I", "J", "K", "L", "M",
               "N", "O", "P", "Q", "R", "S", "T", "U", "V", "W", "X", "Y", "Z">>
LowerCase == <<"a", "b", "c", "d", "e", "f", "g", "h", "i", "j", "k", "l", "m",
               "n", "o", "p", "q", "r", "s", "t", "u", "v", "w", "x", "y", "z">>

\* the characters of the model in code-point order
CodePoints == <<" ", "'", "-", ".", "/", "0", "1", "2", "3", "4", "5", "6", "7",
                "8", "9">> \o UpperCase \o LowerCase
Chars == {CodePoints[i] : i \in 1..Len(CodePoints)}
Ord == [c \in Chars |-> CHOOSE i \in 1..Len(CodePoints) : CodePoints[i] = c]

\* str.lower() on one character
LowerChar ==
    [c \in Chars |->
        IF \E i \in 1..Len(UpperCase) : UpperCase[i] = c
        THEN LowerCase[CHOOSE i \in 1..Len(UpperCase) : UpperCase[i] = c]
        ELSE c]

\* str.lower()
Lower(s) == [i \in 1..Len(s) |-> LowerChar[s[i]]]

\* the Python test `a in b` on strings
Contains(a, b) ==
    \E k \in 0..(Len(b) - Len(a)) : \A i \in 1..Len(a) : b[k + i] = a[i]

\* str.split(): the maximal runs of non-blank characters, in order
RECURSIVE SplitLoop(_, _, _, _)
SplitLoop(s, i, word, out) ==
    IF i > Len(s)
    THEN IF word = <<>> THEN out ELSE Append(out, word)
    ELSE IF s[i] = " "
         THEN SplitLoop(s, i + 1, <<>>, IF word = <<>> THEN out ELSE Append(out, word))
         ELSE SplitLoop(s, i + 1, Append(word, s[i]), out)
Split(s) == SplitLoop(s, 1, <<>>, <<>>)

\* " ".join(words)
RECURSIVE Join(_)
Join(words) ==
    IF words = <<>> THEN <<>>
    ELSE IF Len(words) = 1 THEN words[1]
    ELSE words[1] \o <<" ">> \o Join(Tail(words))

\* the Python comparison a < b on strings
RECURSIVE StrLess(_, _)
StrLess(a, b) ==
    IF b = <<>> THEN FALSE
    ELSE IF a = <<>> THEN TRUE
    ELSE IF a[1] = b[1] THEN StrLess(Tail(a), Tail(b))
    ELSE Ord[a[1]] < Ord[b[1]]

\* str.split(sep) for a one-character sep: empty parts are kept
RECURSIVE SplitOnLoop(_, _, _, _, _)
SplitOnLoop(s, sep, i, part, out) ==
    IF i > Len(s) THEN Append(out, part)
    ELSE IF s[i] = sep
         THEN SplitOnLoop(s, sep, i + 1, <<>>, Append(out, part))
         ELSE SplitOnLoop(s, sep, i + 1, Append(part, s[i]), out)
SplitOn(s, sep) == SplitOnLoop(s, sep, 1, <<>>, <<>>)

\* str.zfill(2)
ZFill2(s) == IF Len(s) >= 2 THEN s ELSE IF Len(s) = 1 THEN <<"0">> \o s ELSE <<"0", "0">>

\* s[:n]
Prefix(s, n) == IF Len(s) <= n THEN s ELSE SubSeq(s, 1, n)

\* dict.get(key, default)
Get(m, key, default) == IF key \in DOMAIN m THEN m[key] ELSE default

ShellUK == <<"S", "h", "e", "l", "l", " ", "U", "K">>
BPInternational == <<"B", "P", " ", "I", "n", "t", "e", "r", "n", "a", "t", "i", "o", "n", "a", "l">>
OilOrGasUK == <<"O", "i", "l", " ", "o", "r", " ", "G", "a", "s", " ", "U", "K">>
TermShell == <<"s", "h", "e", "l", "l">>
TermBp == <<"b", "p">>
TermShellOrBp == <<"s", "h", "e", "l", "l", " ", "O", "R", " ", "b", "p">>
TermOilOrGas == <<"o", "i", "l", " ", "O", "R", " ", "g", "a", "s">>
TermAcme == <<"a", "c", "m", "e">>
Date2023 == <<"0", "1", "/", "0", "2", "/", "2", "0", "2", "3">>
Date2024 == <<"2", "0", "2", "4", "-", "0", "3", "-", "0", "5">>
NoPurpose == <<>>
MinisterA == <<"A", "n", "n">>
MinisterB == <<"B", "o", "b">>
PurposeShell == <<"T", "o", " ", "d", "i", "s", "c", "u", "s", "s", " ", "S", "h", "e", "l", "l">>
AcmeCorp == <<"A", "c", "m", "e", " ", "C", "o", "r", "p">>

(***************************************************************************)
(* The deduplication step                                                  *)
(***************************************************************************)
MaxLen == 3

\* the records the step is fed: the same row may come from two documents,
\* which differ in the department tag only
DedupRecords ==
    [minister : {MinisterA, MinisterB},
     date : {Date2023, Date2024},
     organisation : {ShellUK, BPInternational},
     purpose : {NoPurpose},
     department : {"Dept X", "Dept Y"}]

RECURSIVE SeqsUpTo(_, _)
SeqsUpTo(S, n) ==
    IF n = 0 THEN {<<>>}
    ELSE LET shorter == SeqsUpTo(S, n - 1)
         IN shorter \cup {Append(q, x) : q \in {r \in shorter : Len(r) = n - 1}, x \in S}

\* a key that leaves the organisation out
DedupKeyNoOrg(m) == <<m["minister"], m["date"]>>
\* key = (m["minister"], m["date"], m["organisation"])
DedupKey(m) == <<m["minister"], m["date"], m["organisation"]>>

\* for m in all_meetings: if key not in seen: seen.add(key); unique.append(m)
RECURSIVE DedupLoop(_, _, _, _)
DedupLoop(ms, i, seen, out) ==
    IF i > Len(ms) THEN out
    ELSE LET key == DedupKey(ms[i])
         IN IF key \notin seen
            THEN DedupLoop(ms, i + 1, seen \cup {key}, Append(out, ms[i]))
            ELSE DedupLoop(ms, i + 1, seen, out)

\* the test inverted: a record is kept when its key was seen before
RECURSIVE DedupLoopInverted(_, _, _, _)
DedupLoopInverted(ms, i, seen, out) ==
    IF i > Len(ms) THEN out
    ELSE LET key == DedupKey(ms[i])
         IN IF key \in seen
            THEN DedupLoopInverted(ms, i + 1, seen, Append(out, ms[i]))
            ELSE DedupLoopInverted(ms, i + 1, seen \cup {key}, out)
DeduplicateInverted(ms) == DedupLoopInverted(ms, 1, {}, <<>>)
Deduplicate(ms) == DedupLoop(ms, 1, {}, <<>>)

DedupInit ==
    /\ all_meetings \in SeqsUpTo(DedupRecords, MaxLen)
    /\ unique_meetings = <<>>
    /\ rerun_meetings = <<>>
    /\ dedup_pc = "input"

DedupIdle ==
    /\ all_meetings = <<>>
    /\ unique_meetings = <<>>
    /\ rerun_meetings = <<>>
    /\ dedup_pc = "input"

\* build_index, step 5
BuildDedupStep ==
    /\ dedup_pc = "input"
    /\ unique_meetings' = Deduplicate(all_meetings)
    /\ dedup_pc' = "build"
    /\ UNCHANGED <<all_meetings, rerun_meetings>>

\* _search_uk_ministerial_meetings_live: all_meetings = unique_meetings
LiveDedupStep ==
    /\ dedup_pc = "input"
    /\ all_meetings # <<>>
    /\ unique_meetings' = Deduplicate(all_meetings)
    /\ dedup_pc' = "live"
    /\ UNCHANGED <<all_meetings, rerun_meetings>>

\* search_uk_senior_officials_meetings: the same step
SeniorDedupStep ==
    /\ dedup_pc = "input"
    /\ all_meetings # <<>>
    /\ unique_meetings' = Deduplicate(all_meetings)
    /\ dedup_pc' = "senior"
    /\ UNCHANGED <<all_meetings, rerun_meetings>>

\* the step run a second time, on its own output
DedupAgain ==
    /\ dedup_pc \in {"build", "live", "senior"}
    /\ rerun_meetings' = Deduplicate(unique_meetings)
    /\ dedup_pc' = "rerun"
    /\ UNCHANGED <<all_meetings, unique_meetings>>

(***************************************************************************)
(* Snapshots, and what the two snapshot sources can hold                   *)
(***************************************************************************)
IndexRecord(minister, date, org, dept) ==
    [minister |-> minister, date |-> date, organisation |-> org,
     purpose |-> NoPurpose, department |-> dept, meeting_type |-> "ministerial"]

IndexMetadata == [created |-> "2024-06-01T00:00:00", coverage |-> "2012-present"]

SnapshotA ==
    [metadata |-> IndexMetadata,
     meetings |-> <<IndexRecord(MinisterA, Date2023, ShellUK, "Dept X"),
                    IndexRecord(MinisterB, Date2024, BPInternational, "Dept Y")>>]
SnapshotB ==
    [metadata |-> IndexMetadata,
     meetings |-> <<IndexRecord(MinisterA, Date2024, OilOrGasUK, "Dept X"),
                    IndexRecord(MinisterA, Date2023, ShellUK, "Dept X"),
                    IndexRecord(MinisterB, Date2023, ShellUK, "Dept Y")>>]
\* valid JSON that is no index: it has no "meetings" list
MalformedPayload == [metadata |-> IndexMetadata]

Snapshots == {SnapshotA, SnapshotB}
Payloads == Snapshots \cup {MalformedPayload}
\* the local file: missing, present but open() or the parse fails, or JSON;
\* the build writes SnapshotA beside the module
FileAbsent == [file |-> "absent"]
FileUnreadable == [file |-> "unreadable"]
LocalFileStates == {FileAbsent, FileUnreadable, SnapshotA, MalformedPayload}
\* the remote URL: the request fails, or it answers JSON; the published
\* snapshot is SnapshotB
RemoteDown == [http |-> "down"]
RemoteStates == {RemoteDown, SnapshotB, MalformedPayload}

LocalReadable(lf) == lf \in Snapshots

\* whether the name json is bound in eu_lobbying_core: the module never
\* imports it, so every use of json.load / json.dump raises NameError
JsonImported == FALSE

\* the early return of load_uk_index ignored: the cache is never used
CacheHitNever(cache) == FALSE
\* if _uk_index_cache["loaded"]
CacheHit(cache) == cache.loaded

\* the local branch of load_uk_index: [cache, done, reads]; done means
\* the function returned from inside the with block
LoadLocal(cache, lf) ==
    IF lf = FileAbsent THEN [cache |-> cache, done |-> FALSE, reads |-> 0]
    ELSE IF lf = FileUnreadable \/ ~JsonImported
         THEN [cache |-> cache, done |-> FALSE, reads |-> 1]
         ELSE LET c == [data |-> lf, loaded |-> TRUE]
              IN [cache |-> c, done |-> "meetings" \in DOMAIN lf, reads |-> 1]

\* the remote branch: response.json() is a method of requests, not of json
LoadRemote(cache, ri) ==
    IF ri = RemoteDown THEN [cache |-> cache, ret |-> None]
    ELSE LET c == [data |-> ri, loaded |-> TRUE]
         IN [cache |-> c, ret |-> IF "meetings" \in DOMAIN ri THEN ri ELSE None]

\* load_uk_index(): [cache, ret, reads, requests]; it raises nothing
LoadUkIndex(cache, lf, ri) ==
    IF CacheHit(cache)
    THEN [cache |-> cache, ret |-> cache.data, reads |-> 0, requests |-> 0]
    ELSE LET l == LoadLocal(cache, lf)
         IN IF l.done
            THEN [cache |-> l.cache, ret |-> l.cache.data, reads |-> l.reads,
                  requests |-> 0]
            ELSE LET r == LoadRemote(l.cache, ri)
                 IN [cache |-> r.cache, ret |-> r.ret, reads |-> l.reads,
                     requests |-> 1]

(***************************************************************************)
(* search_uk_index                                                         *)
(***************************************************************************)
\* positions of the records whose organisation contains the term
MatchingPositions(meetings, search_lower) ==
    {i \in 1..Len(meetings) :
        Contains(search_lower, Lower(Get(meetings[i], "organisation", <<>>)))}

RECURSIVE PickPositions(_, _, _)
PickPositions(meetings, pos, i) ==
    IF i > Len(meetings) THEN <<>>
    ELSE IF i \in pos
         THEN <<meetings[i]>> \o PickPositions(meetings, pos, i + 1)
         ELSE PickPositions(meetings, pos, i + 1)

\* d[key] = d.get(key, 0) + 1 on a dict kept as its items <<key, value>> in
\* insertion order
CountKey(items, key) ==
    IF \E i \in 1..Len(items) : items[i][1] = key
    THEN [i \in 1..Len(items) |->
             IF items[i][1] = key THEN <<key, items[i][2] + 1>> ELSE items[i]]
    ELSE Append(items, <<key, 1>>)

\* the year search_uk_index files a date under ("" for none)
IndexYear(date) ==
    LET Year(parts) ==
            IF Len(parts) > 2 /\ Len(parts[3]) = 4 THEN parts[3]
            ELSE IF Len(parts[1]) = 4 THEN parts[1]
            ELSE <<>>
    IN IF Contains(<<"/">>, date) THEN Year(SplitOn(date, "/"))
       ELSE IF Contains(<<"-">>, date) THEN Prefix(date, 4)
       ELSE <<>>

\* the year the live search files a date under
LiveYear(date) ==
    LET Year(parts) ==
            IF Len(parts) = 3
            THEN (IF Len(parts[3]) = 4 THEN parts[3] ELSE parts[1])
            ELSE <<>>
    IN IF Contains(<<"/">>, date) THEN Year(SplitOn(date, "/"))
       ELSE IF Contains(<<"-">>, date) THEN Prefix(date, 4)
       ELSE <<>>

\* the aggregation loop over the matches: the items of by_minister
\* ("minister"), by_department ("department") or by_year ("year")
RECURSIVE CountMatches(_, _, _, _, _)
CountMatches(matches, field, live, i, items) ==
    IF i > Len(matches) THEN items
    ELSE LET Counted(key) ==
                 IF field = "year" /\ key = <<>> THEN items ELSE CountKey(items, key)
         IN CountMatches(matches, field, live, i + 1,
                Counted(IF field = "year"
                        THEN (IF live THEN LiveYear(Get(matches[i], "date", <<>>))
                              ELSE IndexYear(Get(matches[i], "date", <<>>)))
                        ELSE Get(matches[i], field, "Unknown")))

\* the sort keys: key=lambda x: -x[1] ("count"), and key=lambda x: x[0]
\* with reverse=True ("key"); whether item a must come before item b
ItemBefore(a, b, by) ==
    IF by = "count" THEN a[2] > b[2] ELSE StrLess(b[1], a[1])

\* sorted(): stable, so items with equal sort keys keep their order
RECURSIVE InsertItem(_, _, _)
InsertItem(sorted, item, by) ==
    IF sorted = <<>> THEN <<item>>
    ELSE IF ItemBefore(item, sorted[1], by) THEN <<item>> \o sorted
    ELSE <<sorted[1]>> \o InsertItem(Tail(sorted), item, by)
\* the items left as the aggregation loop inserted them
SortItemsUnsorted(items, by, i, sorted) == items
RECURSIVE SortItems(_, _, _, _)
SortItems(items, by, i, sorted) ==
    IF i > Len(items) THEN sorted
    ELSE SortItems(items, by, i + 1, InsertItem(sorted, items[i], by))

\* dict(sorted(by_....items(), key=...)): the dict as its items in order
ByMinister(matches) ==
    SortItems(CountMatches(matches, "minister", FALSE, 1, <<>>), "count", 1, <<>>)
ByDepartment(matches) ==
    SortItems(CountMatches(matches, "department", FALSE, 1, <<>>), "count", 1, <<>>)
ByYear(matches, live) ==
    SortItems(CountMatches(matches, "year", live, 1, <<>>), "key", 1, <<>>)

\* search_uk_index(search_term) on the outcome of its load_uk_index call:
\* [outcome, ret, refs]; refs are the positions of the matched records
SearchUkIndexOn(index, search_term) ==
    IF index = None
    THEN [outcome |-> "returned", ret |-> None, refs |-> {}]
    ELSE IF "meetings" \notin DOMAIN index
    THEN [outcome |-> "raised", ret |-> Raised("KeyError"), refs |-> {}]
    ELSE LET pos == MatchingPositions(index.meetings, Lower(search_term))
             matches == PickPositions(index.meetings, pos, 1)
         IN IF matches = <<>>
            THEN [outcome |-> "returned", ret |-> None, refs |-> {}]
            ELSE [outcome |-> "returned",
                  ret |-> [search_term |-> search_term,
                           meetings |-> matches,
                           meetings_count |-> Len(matches),
                           meeting_count |-> Len(matches),
                           by_minister |-> ByMinister(matches),
                           by_department |-> ByDepartment(matches),
                           by_year |-> ByYear(matches, FALSE),
                           data_coverage |-> Get(index.metadata, "coverage", "2012-present"),
                           index_date |-> Get(index.metadata, "created", "Unknown"),
                           note |-> "pre-built index"],
                  refs |-> pos]

\* the terms callers search for
Terms == {TermShell, TermBp, TermAcme}
RunTerms == {TermShell, TermShellOrBp, TermOilOrGas}

\* SearchUkIndexOn tabulated over what load_uk_index can return untouched
SearchUkIndexTable ==
    [index \in Payloads \cup {None} |->
        [term \in Terms \cup RunTerms |-> SearchUkIndexOn(index, term)]]
SearchUkIndex(index, search_term) ==
    IF index \in DOMAIN SearchUkIndexTable
    THEN SearchUkIndexTable[index][search_term]
    ELSE SearchUkIndexOn(index, search_term)

(***************************************************************************)
(* The live search                                                         *)
(***************************************************************************)
\* a CSV row as csv.DictReader yields it: header text -> cell text
Row(org, minister, date, purpose) ==
    (<<"O", "r", "g", "a", "n", "i", "s", "a", "t", "i", "o", "n">> :> org) @@ (<<"M", "i", "n", "i", "s", "t", "e", "r">> :> minister)
        @@ (<<"D", "a", "t", "e">> :> date) @@ (<<"P", "u", "r", "p", "o", "s", "e", " ", "o", "f", " ", "m", "e", "e", "t", "i", "n", "g">> :> purpose)
\* a row whose organisation column has another accepted header
RowNamed(org, minister, date) ==
    (<<"N", "a", "m", "e", " ", "o", "f", " ", "o", "r", "g", "a", "n", "i", "s", "a", "t", "i", "o", "n">> :> org) @@ (<<"M", "i", "n", "i", "s", "t", "e", "r">> :> minister) @@ (<<"D", "a", "t", "e">> :> date)

\* row_lower = {k.lower(): v for k, v in row.items()}
RowLower(row) ==
    [k \in {Lower(h) : h \in DOMAIN row} |->
        row[CHOOSE h \in DOMAIN row : Lower(h) = k]]

\* row_lower.get(k1) or row_lower.get(k2) or ... or ''
RECURSIVE FirstTruthy(_, _)
FirstTruthy(row, keys) ==
    IF keys = <<>> THEN <<>>
    ELSE IF keys[1] \in DOMAIN row /\ row[keys[1]] # <<>> THEN row[keys[1]]
    ELSE FirstTruthy(row, Tail(keys))

OrgNameKeys == << <<"n", "a", "m", "e", " ", "o", "f", " ", "i", "n", "d", "i", "v", "i", "d", "u", "a", "l", " ", "o", "r", " ", "o", "r", "g", "a", "n", "i", "s", "a", "t", "i", "o", "n">>,
                  <<"n", "a", "m", "e", " ", "o", "f", " ", "o", "r", "g", "a", "n", "i", "s", "a", "t", "i", "o", "n", " ", "o", "r", " ", "i", "n", "d", "i", "v", "i", "d", "u", "a", "l">>,
                  <<"o", "r", "g", "a", "n", "i", "s", "a", "t", "i", "o", "n">>, <<"n", "a", "m", "e", " ", "o", "f", " ", "o", "r", "g", "a", "n", "i", "s", "a", "t", "i", "o", "n">> >>
PurposeKeys == << <<"p", "u", "r", "p", "o", "s", "e", " ", "o", "f", " ", "m", "e", "e", "t", "i", "n", "g">>, <<"p", "u", "r", "p", "o", "s", "e">> >>
OfficialKeys == << <<"m", "i", "n", "i", "s", "t", "e", "r">>, <<"s", "e", "n", "i", "o", "r", " ", "o", "f", "f", "i", "c", "i", "a", "l", "'", "s", " ", "n", "a", "m", "e">>,
                   <<"s", "e", "n", "i", "o", "r", " ", "o", "f", "f", "i", "c", "i", "a", "l">>, <<"n", "a", "m", "e">> >>

\* parse_uk_csv_for_matches, on the rows of one downloaded CSV
RECURSIVE ParseUkCsvForMatches(_, _, _, _)
ParseUkCsvForMatches(rows, search_lower, dept, source) ==
    IF rows = <<>> THEN <<>>
    ELSE LET row_lower == RowLower(rows[1])
             org_name == FirstTruthy(row_lower, OrgNameKeys)
             purpose == FirstTruthy(row_lower, PurposeKeys)
             official == FirstTruthy(row_lower, OfficialKeys)
             date == Get(row_lower, <<"d", "a", "t", "e">>, <<>>)
             rest == ParseUkCsvForMatches(Tail(rows), search_lower, dept, source)
         IN IF Contains(search_lower, Lower(org_name))
               \/ Contains(search_lower, Lower(purpose))
            THEN <<[minister |-> official, date |-> date, organisation |-> org_name,
                    purpose |-> purpose, department |-> dept, source |-> source]>>
                 \o rest
            ELSE rest

\* step 3 of the live search: every unique CSV is parsed for matches
RECURSIVE SearchCsvs(_, _)
SearchCsvs(docs, search_lower) ==
    IF docs = <<>> THEN <<>>
    ELSE ParseUkCsvForMatches(docs[1].rows, search_lower, docs[1].dept, docs[1].source)
         \o SearchCsvs(Tail(docs), search_lower)

\* parse_date_for_sort
ParseDateForSort(m) ==
    LET date == Get(m, "date", <<>>)
        parts == SplitOn(date, "/")
    IN
    IF Contains(<<"/">>, date) /\ Len(parts) = 3
    THEN parts[3] \o <<"-">> \o ZFill2(parts[2]) \o <<"-">> \o ZFill2(parts[1])
    ELSE IF Contains(<<"-">>, date) /\ Len(date) >= 10
    THEN Prefix(date, 10)
    ELSE <<"0", "0", "0", "0", "-", "0", "0", "-", "0", "0">>

\* list.sort(key=parse_date_for_sort, reverse=True): stable, so records
\* with equal keys keep their order
RECURSIVE InsertByDate(_, _)
InsertByDate(sorted, m) ==
    IF sorted = <<>> THEN <<m>>
    ELSE IF StrLess(ParseDateForSort(sorted[1]), ParseDateForSort(m))
         THEN <<m>> \o sorted
         ELSE <<sorted[1]>> \o InsertByDate(Tail(sorted), m)
RECURSIVE SortByDateLoop(_, _, _)
SortByDateLoop(ms, i, sorted) ==
    IF i > Len(ms) THEN sorted
    ELSE SortByDateLoop(ms, i + 1, InsertByDate(sorted, ms[i]))
SortByDate(ms) == SortByDateLoop(ms, 1, <<>>)

\* whether the names include_senior_officials and senior_officials_count,
\* read at the end of _search_uk_ministerial_meetings_live, are bound:
\* they are neither parameters, locals nor module globals
IncludeSeniorOfficialsBound == FALSE

\* _search_uk_ministerial_meetings_live(search_term) on the CSVs it could
\* download: [outcome, ret, matches]
SearchUkMinisterialMeetingsLive(search_term, docs) ==
    LET found == SearchCsvs(docs, Lower(search_term))
        meetings == SortByDate(Deduplicate(found))
    IN IF found = <<>>
       THEN [outcome |-> "returned", ret |-> None, matches |-> 0]
       ELSE IF ~IncludeSeniorOfficialsBound
       THEN [outcome |-> "raised", ret |-> Raised("NameError"), matches |-> Len(found)]
       ELSE [outcome |-> "returned",
             ret |-> [search_term |-> search_term,
                      meetings |-> meetings,
                      meetings_count |-> Len(meetings),
                      meeting_count |-> Len(meetings),
                      departments_searched |->
                          {meetings[i]["department"] : i \in 1..Len(meetings)},
                      csvs_processed |-> Len(docs),
                      by_minister |-> ByMinister(meetings),
                      by_department |-> ByDepartment(meetings),
                      by_year |-> ByYear(meetings, TRUE),
                      data_coverage |-> "Last 6 months",
                      date_range |->
                          LET Range(years) ==
                                  IF years = <<>> THEN "N/A"
                                  ELSE <<years[Len(years)][1], years[1][1]>>
                          IN Range(ByYear(meetings, TRUE)),
                      note |-> "live"],
             matches |-> Len(found)]

LiveDoc(dept, source, rows) == [dept |-> dept, source |-> source, rows |-> rows]
\* what the live search can download: nothing, one CSV, or two CSVs that
\* carry the same row
LiveCorpora ==
    { <<>>,
      <<LiveDoc("Dept X", "x.csv", <<Row(ShellUK, MinisterA, Date2023, NoPurpose),
                                     Row(AcmeCorp, MinisterB, Date2024, PurposeShell)>>)>>,
      <<LiveDoc("Dept X", "x.csv", <<Row(ShellUK, MinisterA, Date2023, NoPurpose)>>),
        LiveDoc("Dept Y", "y.csv", <<Row(ShellUK, MinisterA, Date2023, NoPurpose),
                                     RowNamed(BPInternational, MinisterB, Date2024)>>)>> }

\* the live search tabulated over the corpora and terms of the model
LiveSearchTable ==
    [docs \in LiveCorpora |->
        [term \in Terms \cup RunTerms |-> SearchUkMinisterialMeetingsLive(term, docs)]]

(***************************************************************************)
(* search_uk_ministerial_meetings                                          *)
(***************************************************************************)
NoLoad == [called |-> FALSE, ret |-> None, reads |-> 0, requests |-> 0]
DidLoad(ld) == [called |-> TRUE, ret |-> ld.ret, reads |-> ld.reads, requests |-> ld.requests]

\* search_uk_ministerial_meetings(search_term, use_index):
\* [cache, outcome, ret, refs, load, index_matches, live_runs, live_matches]
SearchUkMinisterialMeetings(cache, lf, ri, docs, search_term, use_index) ==
    LET ViaLive(live, c, load) ==
            [cache |-> c, outcome |-> live.outcome, ret |-> live.ret, refs |-> {},
             load |-> load, index_matches |-> 0, live_runs |-> 1,
             live_matches |-> live.matches]
        ViaIndex(ld, ix) ==
            IF ix.outcome = "raised" \/ ix.ret # None
            THEN [cache |-> ld.cache, outcome |-> ix.outcome, ret |-> ix.ret,
                  refs |-> ix.refs, load |-> DidLoad(ld),
                  index_matches |-> Cardinality(ix.refs), live_runs |-> 0,
                  live_matches |-> 0]
            ELSE ViaLive(LiveSearchTable[docs][search_term], ld.cache, DidLoad(ld))
        Loaded(ld) == ViaIndex(ld, SearchUkIndex(ld.ret, search_term))
    IN IF ~use_index THEN ViaLive(LiveSearchTable[docs][search_term], cache, NoLoad)
       ELSE Loaded(LoadUkIndex(cache, lf, ri))

(***************************************************************************)
(* Calls into the loader and the UK search, and their environment          *)
(***************************************************************************)
MaxCalls == 3

EmptyCache == [data |-> None, loaded |-> FALSE]

NoCall ==
    [op |-> "none", term |-> <<>>, use_index |-> FALSE,
     outcome |-> "returned", ret |-> None, load |-> NoLoad,
     index_matches |-> 0, live_runs |-> 0, live_matches |-> 0,
     loaded_before |-> FALSE, snapshot_before |-> None,
     local_before |-> FileAbsent, remote_before |-> RemoteDown]

\* what a call found when it started
Before(call) ==
    [call EXCEPT !.loaded_before = uk_index_cache.loaded,
                 !.snapshot_before = first_snapshot,
                 !.local_before = local_file, !.remote_before = remote_index]

UkInit ==
    /\ uk_index_cache = EmptyCache
    /\ local_file \in LocalFileStates
    /\ remote_index \in RemoteStates
    /\ live_corpus \in LiveCorpora
    /\ calls = 0
    /\ last_call = NoCall
    /\ first_snapshot = None

UkIdle ==
    /\ uk_index_cache = EmptyCache
    /\ local_file = FileAbsent
    /\ remote_index = RemoteDown
    /\ live_corpus = <<>>
    /\ calls = 0
    /\ last_call = NoCall
    /\ first_snapshot = None

\* the first snapshot any load_uk_index call of the process returned
NoteSnapshot(load) ==
    first_snapshot' = IF first_snapshot = None /\ load.called THEN load.ret
                      ELSE first_snapshot

\* a caller calls load_uk_index()
CallLoadUkIndex ==
    /\ calls < MaxCalls
    /\ LET Loaded(ld) ==
               /\ uk_index_cache' = ld.cache
               /\ last_call' = [Before(NoCall) EXCEPT !.op = "load_uk_index",
                                   !.ret = ld.ret, !.load = DidLoad(ld)]
               /\ NoteSnapshot(DidLoad(ld))
       IN Loaded(LoadUkIndex(uk_index_cache, local_file, remote_index))
    /\ calls' = calls + 1
    /\ UNCHANGED <<local_file, remote_index, live_corpus>>

\* a caller calls search_uk_index(search_term)
CallSearchUkIndex ==
    /\ calls < MaxCalls
    /\ \E term \in Terms :
         LET Searched(ld, ix) ==
                 /\ uk_index_cache' = ld.cache
                 /\ last_call' = [Before(NoCall) EXCEPT !.op = "search_uk_index",
                                     !.term = term, !.use_index = TRUE,
                                     !.outcome = ix.outcome, !.ret = ix.ret,
                                     !.load = DidLoad(ld),
                                     !.index_matches = Cardinality(ix.refs)]
                 /\ NoteSnapshot(DidLoad(ld))
             Loaded(ld) == Searched(ld, SearchUkIndex(ld.ret, term))
         IN Loaded(LoadUkIndex(uk_index_cache, local_file, remote_index))
    /\ calls' = calls + 1
    /\ UNCHANGED <<local_file, remote_index, live_corpus>>

\* a caller calls search_uk_ministerial_meetings(search_term, use_index)
CallSearchUkMinisterialMeetings ==
    /\ calls < MaxCalls
    /\ \E term \in Terms, use_index \in BOOLEAN :
         LET Searched(r) ==
                 /\ uk_index_cache' = r.cache
                 /\ last_call' = [Before(NoCall) EXCEPT !.op = "search_uk_ministerial_meetings",
                                     !.term = term, !.use_index = use_index,
                                     !.outcome = r.outcome, !.ret = r.ret,
                                     !.load = r.load,
                                     !.index_matches = r.index_matches,
                                     !.live_runs = r.live_runs,
                                     !.live_matches = r.live_matches]
                 /\ NoteSnapshot(r.load)
         IN Searched(SearchUkMinisterialMeetings(uk_index_cache, local_file,
                         remote_index, live_corpus, term, use_index))
    /\ calls' = calls + 1
    /\ UNCHANGED <<local_file, remote_index, live_corpus>>

\* between calls the snapshot file is rebuilt, removed or damaged
SnapshotFileChanges ==
    /\ local_file' \in LocalFileStates \ {local_file}
    /\ UNCHANGED <<uk_index_cache, remote_index, live_corpus, calls, last_call,
                   first_snapshot>>

\* between calls the remote snapshot changes or becomes unreachable
RemoteIndexChanges ==
    /\ remote_index' \in RemoteStates \ {remote_index}
    /\ UNCHANGED <<uk_index_cache, local_file, live_corpus, calls, last_call,
                   first_snapshot>>

(***************************************************************************)
(* search_all (the registry of __init__.py)                                *)
(***************************************************************************)
MaxReq == 2

\* the keys of JURISDICTIONS, in the order of the dict
Registry == <<"eu", "france", "germany", "uk", "austria", "catalonia",
              "finland", "slovenia">>
Registered == {Registry[i] : i \in 1..Len(Registry)}
\* ids a caller may pass; "ireland" is not in the registry
RequestableIds == Registered \cup {"ireland"}

Found(jur_id) == [found_in |-> jur_id]
\* what a search_fn can do: raise, return None, or return data
SearchFnOutcomes(jur_id) == {Raised("Exception"), None, Found(jur_id)}

\* the except clause of search_all left out
SearchAllCatchesNothing == FALSE
\* try: ... except Exception as e: results[jur_id] = None
SearchAllCatches == TRUE

SaInit ==
    /\ sa_requested \in SeqsUpTo(RequestableIds, MaxReq) \cup {Registry}
    /\ sa_skip_slow \in BOOLEAN
    /\ sa_i = 1
    /\ sa_results = <<>>
    /\ sa_outcome = <<>>
    /\ sa_pc = "loop"

SaIdle ==
    /\ sa_requested = <<>>
    /\ sa_skip_slow = TRUE
    /\ sa_i = 1
    /\ sa_results = <<>>
    /\ sa_outcome = <<>>
    /\ sa_pc = "loop"

\* results[jur_id] = value
SetItem(d, key, value) == (key :> value) @@ d

\* one pass of `for jur_id in jurisdictions`
SearchAllStep ==
    /\ sa_pc = "loop"
    /\ sa_i <= Len(sa_requested)
    /\ LET jur_id == sa_requested[sa_i]
       IN IF jur_id \notin Registered
          THEN /\ sa_outcome' = Append(sa_outcome, [id |-> jur_id, did |-> "unknown",
                                                     value |-> None])
               /\ sa_i' = sa_i + 1
               /\ UNCHANGED <<sa_results, sa_pc>>
          ELSE IF sa_skip_slow /\ jur_id = "uk"
          THEN /\ sa_results' = SetItem(sa_results, jur_id, None)
               /\ sa_outcome' = Append(sa_outcome, [id |-> jur_id, did |-> "skipped",
                                                     value |-> None])
               /\ sa_i' = sa_i + 1
               /\ UNCHANGED sa_pc
          ELSE \E o \in SearchFnOutcomes(jur_id) :
                 /\ sa_outcome' = Append(sa_outcome, [id |-> jur_id, did |-> "called",
                                                       value |-> o])
                 /\ IF o = Raised("Exception")
                    THEN IF SearchAllCatches
                         THEN /\ sa_results' = SetItem(sa_results, jur_id, None)
                              /\ sa_i' = sa_i + 1
                              /\ UNCHANGED sa_pc
                         ELSE /\ sa_pc' = "raised"
                              /\ UNCHANGED <<sa_results, sa_i>>
                    ELSE /\ sa_results' = SetItem(sa_results, jur_id, o)
                         /\ sa_i' = sa_i + 1
                         /\ UNCHANGED sa_pc
    /\ UNCHANGED <<sa_requested, sa_skip_slow>>

\* return results
SearchAllReturn ==
    /\ sa_pc = "loop"
    /\ sa_i > Len(sa_requested)
    /\ sa_pc' = "returned"
    /\ UNCHANGED <<sa_requested, sa_skip_slow, sa_i, sa_results, sa_outcome>>

(***************************************************************************)
(* Boolean query helpers (module boolean_search)                           *)
(***************************************************************************)
\* is_or_query(query): a top-level OR, the operator read case-insensitively
IsOrQuery(query) == \E i \in 1..Len(Split(query)) : Lower(Split(query)[i]) = <<"o", "r">>

\* extract_or_terms(query): the literal terms between the ORs, in order
RECURSIVE OrTermsLoop(_, _, _, _)
OrTermsLoop(words, i, term, out) ==
    IF i > Len(words)
    THEN IF term = <<>> THEN out ELSE Append(out, Join(term))
    ELSE IF Lower(words[i]) = <<"o", "r">>
         THEN OrTermsLoop(words, i + 1, <<>>,
                          IF term = <<>> THEN out ELSE Append(out, Join(term)))
         ELSE OrTermsLoop(words, i + 1, Append(term, words[i]), out)
ExtractOrTerms(query) == OrTermsLoop(Split(query), 1, <<>>, <<>>)

\* get_matching_term(query, text): the first term of the query that text
\* contains, case-insensitively; the empty string when none does
RECURSIVE FirstMatchingTerm(_, _)
FirstMatchingTerm(terms, text) ==
    IF terms = <<>> THEN <<>>
    ELSE IF Contains(Lower(terms[1]), Lower(text)) THEN terms[1]
    ELSE FirstMatchingTerm(Tail(terms), text)
GetMatchingTerm(query, text) ==
    FirstMatchingTerm(IF IsOrQuery(query) THEN ExtractOrTerms(query) ELSE <<query>>, text)

(***************************************************************************)
(* run_search (app.py)                                                     *)
(***************************************************************************)
MaxSelected == 2

Entity(name, id) == [name |-> name, id |-> id]
\* what each upstream register holds
RegisterOf(jur_id) ==
    CASE jur_id = "eu" -> <<Entity(ShellUK, "eu-1"), Entity(BPInternational, "eu-2")>>
      [] jur_id = "france" -> <<Entity(ShellUK, "fr-1")>>
      [] jur_id = "germany" -> <<Entity(BPInternational, "de-1"), Entity(OilOrGasUK, "de-2")>>
      [] jur_id = "austria" -> <<Entity(ShellUK, "at-1"), Entity(BPInternational, "at-2")>>
      [] jur_id = "catalonia" -> <<Entity(OilOrGasUK, "cat-1")>>
      [] jur_id = "finland" -> <<Entity(BPInternational, "fi-1")>>
      [] OTHER -> <<Entity(ShellUK, "si-1")>>

\* search_eu_register / search_france_register / search_germany_register:
\* the entries whose name contains the term
RECURSIVE SearchRegister(_, _)
SearchRegister(entries, term) ==
    IF entries = <<>> THEN <<>>
    ELSE IF Contains(Lower(term), Lower(entries[1].name))
         THEN <<entries[1]>> \o SearchRegister(Tail(entries), term)
         ELSE SearchRegister(Tail(entries), term)

\* fetch_eu_data / fetch_france_data / fetch_germany_data
FetchData(jur_id, id) == [org_id |-> id, register |-> jur_id]

\* the for loop over or_terms of the EU, France and Germany blocks
RECURSIVE EntitiesForTerms(_, _, _)
EntitiesForTerms(jur_id, terms, i) ==
    IF i > Len(terms) THEN <<>>
    ELSE LET found == SearchRegister(RegisterOf(jur_id), terms[i])
             rest == EntitiesForTerms(jur_id, terms, i + 1)
         IN IF found # <<>> /\ found[1].id # ""
            THEN <<FetchData(jur_id, found[1].id)
                   @@ [matched_term |-> terms[i], matched_name |-> found[1].name]>>
                 \o rest
            ELSE rest

\* the EU, France and Germany blocks of run_search: [outcome, value]
EntityBlock(jur_id, search_term, or_terms, failing) ==
    IF jur_id \in failing
    THEN [outcome |-> "raised", value |-> Raised("RequestException")]
    ELSE IF Len(or_terms) > 1
    THEN LET all_entities == EntitiesForTerms(jur_id, or_terms, 1)
         IN [outcome |-> "returned",
             value |-> IF all_entities # <<>>
                       THEN [multiple_entities |-> all_entities,
                             search_term |-> search_term, is_or_query |-> TRUE]
                       ELSE None]
    ELSE LET found == SearchRegister(RegisterOf(jur_id), search_term)
         IN [outcome |-> "returned",
             value |-> IF found # <<>> /\ found[1].id # ""
                       THEN FetchData(jur_id, found[1].id) ELSE None]

\* search_austria_register, search_catalonia_register, search_finland_register,
\* search_slovenia_register: they catch their request errors and return None
RegisterBlock(jur_id, search_term, failing) ==
    LET found == SearchRegister(RegisterOf(jur_id), search_term)
    IN [outcome |-> "returned",
        value |-> IF jur_id \in failing \/ found = <<>> THEN None
                  ELSE [search_term |-> search_term, entries |-> found,
                        entry_count |-> Len(found)]]

\* a signature that takes the keyword months_back
UkCallBindsMonthsBack == TRUE
\* whether search_uk_ministerial_meetings(search_term, months_back=...) binds:
\* its parameters are search_term and use_index, so the call is a TypeError
UkCallBinds == FALSE

\* for meeting in meetings: meeting["matched_term"] = get_matching_term(...)
TagMeetings(meetings, search_term) ==
    [i \in 1..Len(meetings) |->
        [k \in DOMAIN meetings[i] \cup {"matched_term"} |->
            IF k = "matched_term"
            THEN GetMatchingTerm(search_term, Get(meetings[i], "organisation", <<>>))
            ELSE meetings[i][k]]]

\* the records of the cached snapshot at the given positions get the tag:
\* the result's list holds the very objects of the cache
TagCached(cache, refs, search_term) ==
    [cache EXCEPT !.data.meetings =
        [i \in 1..Len(cache.data.meetings) |->
            IF i \in refs THEN TagMeetings(<<cache.data.meetings[i]>>, search_term)[1]
            ELSE cache.data.meetings[i]]]

\* the UK block of run_search: [outcome, value, cache]
UkBlock(cache, lf, ri, docs, search_term, is_multi_entity) ==
    IF ~UkCallBinds
    THEN [outcome |-> "raised", value |-> Raised("TypeError"), cache |-> cache]
    ELSE LET Tagged(r) ==
                 IF r.outcome = "raised"
                 THEN [outcome |-> "raised", value |-> r.ret, cache |-> r.cache]
                 ELSE IF r.ret # None /\ is_multi_entity
                 THEN [outcome |-> "returned",
                       value |-> [k \in DOMAIN r.ret \cup {"is_or_query"} |->
                                    IF k = "is_or_query" THEN TRUE
                                    ELSE IF k = "meetings"
                                    THEN TagMeetings(r.ret.meetings, search_term)
                                    ELSE r.ret[k]],
                       cache |-> IF r.refs = {} THEN r.cache
                                 ELSE TagCached(r.cache, r.refs, search_term)]
                 ELSE [outcome |-> "returned", value |-> r.ret, cache |-> r.cache]
         IN Tagged(SearchUkMinisterialMeetings(cache, lf, ri, docs, search_term, TRUE))

EntityJurisdictions == {"eu", "france", "germany"}

\* or_terms = extract_or_terms(search_term) if is_or_query(search_term)
\*            else [search_term]
OrTerms(search_term) ==
    IF IsOrQuery(search_term) THEN ExtractOrTerms(search_term) ELSE <<search_term>>

\* the blocks of run_search in their order, from block k on; the first
\* block that raises ends the call: [outcome, results, failed, searched, cache]
RECURSIVE RunBlocks(_, _, _, _, _, _, _, _)
RunBlocks(k, acc, search_term, selected, failing, lf, ri, docs) ==
    IF k > Len(Registry) THEN acc
    ELSE LET jur_id == Registry[k]
             Block(or_terms) ==
                 IF jur_id \in EntityJurisdictions
                 THEN EntityBlock(jur_id, search_term, or_terms, failing)
                      @@ [cache |-> acc.cache]
                 ELSE IF jur_id = "uk"
                 THEN UkBlock(acc.cache, lf, ri, docs, search_term, Len(or_terms) > 1)
                 ELSE RegisterBlock(jur_id, search_term, failing)
                      @@ [cache |-> acc.cache]
             After(b) ==
                 IF b.outcome = "raised"
                 THEN [acc EXCEPT !.outcome = "raised", !.failed = {jur_id},
                                  !.searched = acc.searched \cup {jur_id},
                                  !.cache = b.cache]
                 ELSE RunBlocks(k + 1,
                                [acc EXCEPT !.results[jur_id] = b.value,
                                            !.searched = acc.searched \cup {jur_id},
                                            !.cache = b.cache],
                                search_term, selected, failing, lf, ri, docs)
         IN IF jur_id \notin selected
            THEN RunBlocks(k + 1, acc, search_term, selected, failing, lf, ri, docs)
            ELSE After(Block(OrTerms(search_term)))

NoResults == [j \in Registered |-> None]

\* run_search(search_term, selected)
RunSearch(cache, lf, ri, docs, search_term, selected, failing) ==
    RunBlocks(1, [outcome |-> "returned", results |-> NoResults, failed |-> {},
                  searched |-> {}, cache |-> cache],
              search_term, selected, failing, lf, ri, docs)

Selections == {sel \in SUBSET Registered : Cardinality(sel) <= MaxSelected}

NoHandOut == [refs |-> {}, seen |-> <<>>]
NoRunArgs == [search_term |-> <<>>, selected |-> {}, loaded_before |-> FALSE,
              handed_before |-> FALSE]

RunIdle ==
    /\ loaded_snapshot = None
    /\ handed_out = NoHandOut
    /\ run_pc = "idle"
    /\ run_args = NoRunArgs
    /\ run_results = NoResults
    /\ run_failed = {}
    /\ run_searched = {}

\* the process starts with an empty cache; a snapshot can be loaded
RunInit ==
    /\ uk_index_cache = EmptyCache
    /\ local_file \in {FileAbsent, SnapshotA}
    /\ remote_index \in {SnapshotB, MalformedPayload}
    /\ live_corpus \in LiveCorpora
    /\ calls = 0
    /\ last_call = NoCall
    /\ first_snapshot = None
    /\ RunIdle

\* the snapshot as load_uk_index cached it, noted when the cache fills
NoteLoaded(cache) ==
    loaded_snapshot' = IF ~uk_index_cache.loaded /\ cache.loaded THEN cache.data
                       ELSE loaded_snapshot

\* a caller calls search_uk_index(search_term) and keeps the result
RunSearchUkIndex ==
    /\ \E term \in RunTerms :
         LET Kept(ld, ix) ==
                 /\ uk_index_cache' = ld.cache
                 /\ NoteLoaded(ld.cache)
                 /\ handed_out' = IF ix.refs # {}
                                  THEN [refs |-> ix.refs, seen |-> ix.ret.meetings]
                                  ELSE handed_out
             Loaded(ld) == Kept(ld, SearchUkIndex(ld.ret, term))
         IN Loaded(LoadUkIndex(uk_index_cache, local_file, remote_index))
    /\ UNCHANGED <<local_file, remote_index, live_corpus, calls, last_call,
                   first_snapshot, run_pc, run_args, run_results, run_failed,
                   run_searched>>

\* the app calls run_search(search_term, selected) once the user presses
\* search; each upstream may fail
CallRunSearch ==
    /\ run_pc = "idle"
    /\ \E term \in RunTerms, selected \in Selections :
         \E failing \in {f \in SUBSET selected : Cardinality(f) <= 1} :
           LET Ran(r) ==
                   /\ uk_index_cache' = r.cache
                   /\ NoteLoaded(r.cache)
                   /\ run_pc' = r.outcome
                   /\ run_args' = [search_term |-> term, selected |-> selected,
                                   loaded_before |-> uk_index_cache.loaded,
                                   handed_before |-> handed_out.refs # {}]
                   /\ run_results' = IF r.outcome = "returned" THEN r.results
                                     ELSE NoResults
                   /\ run_failed' = r.failed
                   /\ run_searched' = r.searched
           IN Ran(RunSearch(uk_index_cache, local_file, remote_index, live_corpus,
                            term, selected, failing))
    /\ UNCHANGED <<local_file, remote_index, live_corpus, calls, last_call,
                   first_snapshot, handed_out>>

(***************************************************************************)
(* build_index (build_uk_index.py): parsing                                *)
(***************************************************************************)
MaxDocs == 2

\* str.strip()
RECURSIVE LStrip(_)
LStrip(s) == IF s # <<>> /\ s[1] = " " THEN LStrip(Tail(s)) ELSE s
RECURSIVE RStrip(_)
RStrip(s) ==
    IF s # <<>> /\ s[Len(s)] = " " THEN RStrip(SubSeq(s, 1, Len(s) - 1)) ELSE s
Strip(s) == RStrip(LStrip(s))

\* row_lower = {k.lower().strip(): v for k, v in row.items() if k}
BuildRowLower(row) ==
    [k \in {Strip(Lower(h)) : h \in {x \in DOMAIN row : x # <<>>}} |->
        row[CHOOSE h \in DOMAIN row : h # <<>> /\ Strip(Lower(h)) = k]]

BuildMinisterKeys == << <<"m", "i", "n", "i", "s", "t", "e", "r">>, <<"n", "a", "m", "e">>,
                        <<"o", "f", "f", "i", "c", "i", "a", "l">>,
                        <<"m", "i", "n", "i", "s", "t", "e", "r", "'", "s", " ", "n", "a", "m", "e">> >>
BuildDateKeys == << <<"d", "a", "t", "e">>,
                    <<"d", "a", "t", "e", " ", "o", "f", " ", "m", "e", "e", "t", "i", "n", "g">>,
                    <<"m", "e", "e", "t", "i", "n", "g", " ", "d", "a", "t", "e">> >>
BuildOrgKeys == << <<"o", "r", "g", "a", "n", "i", "s", "a", "t", "i", "o", "n">>,
                   <<"o", "r", "g", "a", "n", "i", "z", "a", "t", "i", "o", "n", "s">>,
                   <<"n", "a", "m", "e", " ", "o", "f", " ", "o", "r", "g", "a", "n", "i", "s", "a", "t", "i", "o", "n">>,
                   <<"n", "a", "m", "e", " ", "o", "f", " ", "e", "x", "t", "e", "r", "n", "a", "l", " ", "o", "r", "g", "a", "n", "i", "s", "a", "t", "i", "o", "n">>,
                   <<"e", "x", "t", "e", "r", "n", "a", "l", " ", "o", "r", "g", "a", "n", "i", "s", "a", "t", "i", "o", "n">> >>
BuildPurposeKeys == << <<"p", "u", "r", "p", "o", "s", "e">>,
                       <<"p", "u", "r", "p", "o", "s", "e", " ", "o", "f", " ", "m", "e", "e", "t", "i", "n", "g">> >>

\* a row is stored whatever its organisation is
StoreRowAlways(org, minister, date) == TRUE
\* if org and (minister or date)
StoreRow(org, minister, date) == org # <<>> /\ (minister # <<>> \/ date # <<>>)

\* the body of the row loop of download_and_parse_csv: the records one row
\* appends to meetings
BuildParseRow(row) ==
    LET Parsed(row_lower) ==
            LET Stored(minister, date, org, purpose) ==
                    IF StoreRow(org, minister, date)
                    THEN <<[minister |-> minister, date |-> date,
                            organisation |-> org, purpose |-> purpose]>>
                    ELSE <<>>
            IN Stored(Strip(FirstTruthy(row_lower, BuildMinisterKeys)),
                      Strip(FirstTruthy(row_lower, BuildDateKeys)),
                      Strip(FirstTruthy(row_lower, BuildOrgKeys)),
                      Strip(FirstTruthy(row_lower, BuildPurposeKeys)))
    IN Parsed(BuildRowLower(row))

RECURSIVE BuildParseRows(_, _, _)
BuildParseRows(rows, i, last) ==
    IF i > last THEN <<>>
    ELSE BuildParseRow(rows[i]) \o BuildParseRows(rows, i + 1, last)

\* a document skipped whole when it fails
DownloadAndParseCsvAllOrNothing(doc) ==
    IF doc.fail_at = 0 THEN BuildParseRows(doc.rows, 1, Len(doc.rows)) ELSE <<>>
\* download_and_parse_csv(url): fail_at = 0 when nothing fails; otherwise
\* the request or the reader raises when row fail_at is due, the except
\* clause prints, and the meetings appended so far are returned
DownloadAndParseCsv(doc) ==
    IF doc.fail_at = 0 THEN BuildParseRows(doc.rows, 1, Len(doc.rows))
    ELSE BuildParseRows(doc.rows, 1, doc.fail_at - 1)

\* for m in meetings: m["department"] = ...; m["meeting_type"] = ...
TagDocument(meetings, doc) ==
    [i \in 1..Len(meetings) |->
        [k \in DOMAIN meetings[i] \cup {"department", "meeting_type"} |->
            IF k = "department" THEN doc.dept
            ELSE IF k = "meeting_type" THEN doc.type
            ELSE meetings[i][k]]]

\* raw rows as the CSV files carry them
RawShell == Row(ShellUK, MinisterA, Date2023, NoPurpose)
RawBp == RowNamed(BPInternational, MinisterB, Date2024)
RawPadded == Row(<<" ">> \o ShellUK \o <<" ">>, MinisterA, Date2023, NoPurpose)
RawNoOrg == Row(<<>>, MinisterA, Date2023, PurposeShell)
RawOrgOnly == Row(AcmeCorp, <<>>, <<>>, NoPurpose)
\* an organisation that repeats a word
RawRepeated ==
    Row(<<"S", "h", "e", "l", "l", " ", "S", "h", "e", "l", "l">>, MinisterB,
        Date2024, NoPurpose)
RowLists == { <<RawShell, RawBp>>, <<RawPadded, RawRepeated>>, <<RawNoOrg, RawShell>>,
              <<RawOrgOnly, RawBp>> }

\* the documents a build can meet: the publication resolves to its CSV
\* ("ok"), its request fails ("unreachable") or its payload is no dict of
\* the expected shape ("malformed"); the CSV itself fails at row fail_at
Documents ==
    {[rows |-> rows, resolve |-> "ok", fail_at |-> k] :
        rows \in RowLists, k \in {0, 1, 2}}
    \cup {[rows |-> rows, resolve |-> r, fail_at |-> 0] :
             rows \in {<<RawShell, RawBp>>}, r \in {"unreachable", "malformed"}}
Departments == <<"Dept X", "Dept Y", "Dept Z", "Dept W">>
\* document i belongs to publication i of department i
Placed(docs) ==
    [i \in 1..Len(docs) |->
        [rows |-> docs[i].rows, resolve |-> docs[i].resolve,
         fail_at |-> IF docs[i].fail_at > Len(docs[i].rows) THEN 0 ELSE docs[i].fail_at,
         dept |-> Departments[i], type |-> "ministerial"]]

(***************************************************************************)
(* build_index: the index and the snapshot file                            *)
(***************************************************************************)
\* the positions i appended to org_index[word] for record i: one for every
\* occurrence of the word in the record's organisation (positions from 0)
RECURSIVE Postings(_, _, _)
Postings(meetings, word, i) ==
    IF i > Len(meetings) THEN <<>>
    ELSE LET words == Split(Lower(meetings[i]["organisation"]))
         IN [n \in 1..Cardinality({k \in 1..Len(words) : words[k] = word}) |-> i - 1]
            \o Postings(meetings, word, i + 1)

\* org_index by every word, the short ones too
OrgIndexAllWords(meetings) ==
    LET WordsOf(i) == Split(Lower(meetings[i]["organisation"]))
        indexed == UNION {{WordsOf(i)[k] : k \in 1..Len(WordsOf(i))} :
                          i \in 1..Len(meetings)}
    IN [word \in indexed |-> Postings(meetings, word, 1)]
\* step 6: org_index, by the words of more than two characters
OrgIndex(meetings) ==
    LET WordsOf(i) == Split(Lower(meetings[i]["organisation"]))
        indexed == UNION {{WordsOf(i)[k] : k \in {n \in 1..Len(WordsOf(i)) :
                                                     Len(WordsOf(i)[n]) > 2}} :
                          i \in 1..Len(meetings)}
    IN [word \in indexed |-> Postings(meetings, word, 1)]

\* the index dict of step 6
BuildIndexDict(unique_list, docs) ==
    [metadata |-> [created |-> IndexMetadata.created,
                   meeting_count |-> Len(unique_list),
                   csv_files_processed |->
                       Cardinality({i \in 1..Len(docs) : docs[i].resolve = "ok"}),
                   coverage |-> IndexMetadata.coverage],
     meetings |-> unique_list,
     org_index |-> OrgIndex(unique_list)]

\* json.dump writes a dict as its members in insertion order
RecordKeys == <<"minister", "date", "organisation", "purpose", "department",
                "meeting_type">>
MetadataKeys == <<"created", "meeting_count", "csv_files_processed", "coverage">>
DumpObject(obj, keys) == [i \in 1..Len(keys) |-> <<keys[i], obj[keys[i]]>>]
\* json.load builds the dict back from its members
LoadObject(members) ==
    [k \in {members[i][1] : i \in 1..Len(members)} |->
        members[CHOOSE i \in 1..Len(members) :
                   /\ members[i][1] = k
                   /\ \A j \in (i + 1)..Len(members) : members[j][1] # k][2]]

\* json.dump(index, f): the chunks written to the file, in order
JsonDump(index) ==
    <<[tok |-> "{"], [tok |-> "metadata", text |-> DumpObject(index.metadata, MetadataKeys)],
      [tok |-> "["]>>
    \o [i \in 1..Len(index.meetings) |->
           [tok |-> "meeting", text |-> DumpObject(index.meetings[i], RecordKeys)]]
    \o <<[tok |-> "]"], [tok |-> "org_index", text |-> index.org_index], [tok |-> "}"]>>

\* whether the text is one complete JSON document
JsonComplete(text) ==
    /\ Len(text) >= 6
    /\ text[1].tok = "{"
    /\ text[2].tok = "metadata"
    /\ text[3].tok = "["
    /\ \A i \in 4..(Len(text) - 3) : text[i].tok = "meeting"
    /\ text[Len(text) - 2].tok = "]"
    /\ text[Len(text) - 1].tok = "org_index"
    /\ text[Len(text)].tok = "}"

\* json.load(f): the dict, or JSONDecodeError on an empty or cut-off text
JsonLoad(text) ==
    IF ~JsonComplete(text) THEN Raised("JSONDecodeError")
    ELSE [metadata |-> LoadObject(text[2].text),
          meetings |-> [i \in 1..(Len(text) - 6) |-> LoadObject(text[i + 3].text)],
          org_index |-> text[Len(text) - 1].text]

NoFile == [exists |-> FALSE, text |-> <<>>]
FileWith(text) == [exists |-> TRUE, text |-> text]

\* what load_uk_index finds at local_path
ReadSnapshotFile(file) ==
    IF ~file.exists THEN FileAbsent
    ELSE IF JsonLoad(file.text) = Raised("JSONDecodeError") THEN FileUnreadable
    ELSE JsonLoad(file.text)

\* the snapshot of an earlier build
PreviousIndex ==
    BuildIndexDict(<<IndexRecord(MinisterB, Date2024, BPInternational, "Dept Y")>>,
                   <<[resolve |-> "ok"]>>)

NoQuery == [term |-> <<>>, asked |-> FALSE]

BuildInit ==
    /\ b_docs \in {Placed(d) : d \in SeqsUpTo(Documents, MaxDocs)}
    /\ b_i = 1
    /\ b_all = <<>>
    /\ b_index = None
    /\ b_chunks = <<>>
    /\ b_pc = "resolve"
    /\ previous_file \in {NoFile, FileWith(JsonDump(PreviousIndex))}
    /\ index_file = previous_file
    /\ q_log = NoQuery

BuildIdle ==
    /\ b_docs = <<>>
    /\ b_i = 1
    /\ b_all = <<>>
    /\ b_index = None
    /\ b_chunks = <<>>
    /\ b_pc = "resolve"
    /\ previous_file = NoFile
    /\ index_file = NoFile
    /\ q_log = NoQuery

\* step 3: get_csv_urls_from_publication for every publication; a payload
\* of another shape raises outside its try block and ends build_index
BuildResolve ==
    /\ b_pc = "resolve"
    /\ b_pc' = IF \E i \in 1..Len(b_docs) : b_docs[i].resolve = "malformed"
               THEN "raised" ELSE "parse"
    /\ UNCHANGED <<b_docs, b_i, b_all, b_index, b_chunks, index_file,
                   previous_file, q_log>>

\* step 4: one pass of the loop over unique_csvs
BuildParseDoc ==
    /\ b_pc = "parse"
    /\ b_i <= Len(b_docs)
    /\ b_all' = IF b_docs[b_i].resolve = "ok"
                THEN b_all \o TagDocument(DownloadAndParseCsv(b_docs[b_i]), b_docs[b_i])
                ELSE b_all
    /\ b_i' = b_i + 1
    /\ UNCHANGED <<b_docs, b_index, b_chunks, b_pc, index_file, previous_file, q_log>>

\* steps 5 and 6: deduplicate, build org_index and the index dict
BuildIndexStep ==
    /\ b_pc = "parse"
    /\ b_i > Len(b_docs)
    /\ b_index' = BuildIndexDict(Deduplicate(b_all), b_docs)
    /\ b_pc' = "save"
    /\ UNCHANGED <<b_docs, b_i, b_all, b_chunks, index_file, previous_file, q_log>>

\* step 7: open(output_path, "w") truncates the file in place
BuildOpen ==
    /\ b_pc = "save"
    /\ index_file' = FileWith(<<>>)
    /\ b_chunks' = JsonDump(b_index)
    /\ b_pc' = "writing"
    /\ UNCHANGED <<b_docs, b_i, b_all, b_index, previous_file, q_log>>

\* json.dump writes the next chunk into the open file
BuildWrite ==
    /\ b_pc = "writing"
    /\ b_chunks # <<>>
    /\ index_file' = FileWith(Append(index_file.text, Head(b_chunks)))
    /\ b_chunks' = Tail(b_chunks)
    /\ UNCHANGED <<b_docs, b_i, b_all, b_index, b_pc, previous_file, q_log>>

\* the with block ends and build_index returns index
BuildReturn ==
    /\ b_pc = "writing"
    /\ b_chunks = <<>>
    /\ b_pc' = "done"
    /\ UNCHANGED <<b_docs, b_i, b_all, b_index, b_chunks, index_file,
                   previous_file, q_log>>

\* the build stops while the file is open: the disk fills and write raises,
\* or the process is killed
BuildInterrupted ==
    /\ b_pc = "writing"
    /\ b_chunks # <<>>
    /\ b_pc' = "interrupted"
    /\ UNCHANGED <<b_docs, b_i, b_all, b_index, b_chunks, index_file,
                   previous_file, q_log>>

\* the lookup by org_index as the specification describes it: the query's
\* lower-cased tokens are looked up in org_index, their postings are
\* intersected, and the candidates are verified by substring; the result
\* is the set of positions (from 0) of the records found
OrgIndexLookup(index, search_term) ==
    LET tokens == Split(Lower(search_term))
        PostingsOf(word) ==
            IF word \in DOMAIN index.org_index
            THEN {index.org_index[word][k] : k \in 1..Len(index.org_index[word])}
            ELSE {}
        candidates ==
            {p \in 0..(Len(index.meetings) - 1) :
                \A t \in 1..Len(tokens) : p \in PostingsOf(tokens[t])}
    IN IF tokens = <<>> THEN {}
       ELSE {p \in candidates :
                Contains(Lower(search_term),
                         Lower(index.meetings[p + 1]["organisation"]))}

\* the CSV documents of the build as the live search downloads them
LiveDocsOf(docs) ==
    [i \in 1..Len(docs) |-> LiveDoc(docs[i].dept, "csv", docs[i].rows)]

\* after the build, a fresh process queries the snapshot: load_uk_index
\* reads the file the build wrote (the remote copy is down or holds another
\* snapshot) and search_uk_index scans what it returns; the same term is
\* also answered from the index dict build_index returned, by the lookup
\* through its org_index, and by the live search over the same documents
BuildQuery ==
    /\ b_pc = "done"
    /\ ~q_log.asked
    /\ \E term \in Terms, ri \in {RemoteDown, SnapshotB} :
           q_log' =
               LET Asked(loaded) ==
                       [term |-> term, asked |-> TRUE, remote |-> ri,
                        loaded |-> loaded,
                        from_file |-> SearchUkIndexOn(loaded, term),
                        in_memory |-> SearchUkIndexOn(b_index, term),
                        lookup |-> OrgIndexLookup(b_index, term),
                        live |-> SearchUkMinisterialMeetingsLive(term, LiveDocsOf(b_docs))]
               IN Asked(LoadUkIndex(EmptyCache, ReadSnapshotFile(index_file), ri).ret)
    /\ UNCHANGED <<b_docs, b_i, b_all, b_index, b_chunks, b_pc, index_file,
                   previous_file>>

(***************************************************************************)
(* search_uk_index on the snapshots a build can produce                    *)
(***************************************************************************)
MaxMatches == 3

\* dates as the published files write them
DateDash == <<"5", "-", "M", "a", "r", "-", "2", "4">>
DateShort == <<"1", "/", "2", "/", "2", "3">>
NoDate == <<>>

\* the records of the loaded snapshot
AggRecords ==
    {IndexRecord(MinisterA, Date2023, ShellUK, "Dept X"),
     IndexRecord(MinisterB, Date2023, ShellUK, "Dept X"),
     IndexRecord(MinisterA, Date2024, ShellUK, "Dept Y"),
     IndexRecord(MinisterB, Date2024, ShellUK, "Dept Y"),
     IndexRecord(MinisterA, DateDash, ShellUK, "Dept X"),
     IndexRecord(MinisterB, DateShort, ShellUK, "Dept Y"),
     IndexRecord(MinisterB, NoDate, ShellUK, "Dept X"),
     IndexRecord(MinisterA, Date2023, AcmeCorp, "Dept X")}

AggInit ==
    /\ agg_index \in {[metadata |-> IndexMetadata, meetings |-> ms] :
                         ms \in SeqsUpTo(AggRecords, MaxMatches)}
    /\ agg_term = <<>>
    /\ agg_ret = None
    /\ agg_pc = "idle"

AggIdle ==
    /\ agg_index = None
    /\ agg_term = <<>>
    /\ agg_ret = None
    /\ agg_pc = "idle"

\* search_uk_index(search_term) once load_uk_index has returned agg_index
AggSearchUkIndex ==
    /\ agg_pc = "idle"
    /\ \E term \in {TermShell, TermAcme} :
           /\ agg_term' = term
           /\ agg_ret' = SearchUkIndexOn(agg_index, term)
    /\ agg_pc' = "done"
    /\ UNCHANGED agg_index

(***************************************************************************)
(* The recency window of the live UK search                                *)
(***************************************************************************)
MaxPubs == 2
\* months_back: int = 6
DefaultMonthsBack == 6
\* timedelta(days=months_back * 30)
DaysPerMonth == 30

\* cutoff_date: dates are day numbers here, so that the order of the
\* "%Y-%m-%d" strings is the order of the numbers
CutoffDate(now, months_back) == now - months_back * DaysPerMonth

\* publications_filtered; a publication without date counts as 0000-00-00
PublicationsFiltered(publications, now, months_back) ==
    SelectSeq(publications,
              LAMBDA pub : Get(pub, "date", 0) >= CutoffDate(now, months_back))

\* _search_uk_ministerial_meetings_live(search_term, months_back): the
\* publications it goes on to process
LiveWindow(publications, now, months_back) ==
    [outcome |-> "returned", window |-> months_back,
     processed |-> PublicationsFiltered(publications, now, months_back)]

\* search_uk_ministerial_meetings(search_term, use_index=False): the live
\* search is called with the search term alone
SearchUkWindow(publications, now) == LiveWindow(publications, now, DefaultMonthsBack)

\* run_search(..., uk_months_back=n) with the UK selected: the call
\* search_uk_ministerial_meetings(search_term, months_back=n)
RunSearchWindow(publications, now, n) ==
    IF ~UkCallBinds
    THEN [outcome |-> "raised", window |-> 0, processed |-> <<>>]
    ELSE LiveWindow(publications, now, n)

\* publications 5, 50, 150 and 300 days old on day 1000, and one without date
PublicationPool ==
    {[link |-> "a", date |-> 995], [link |-> "b", date |-> 950],
     [link |-> "c", date |-> 850], [link |-> "d", date |-> 700], [link |-> "e"]}
NoWindow == [entry |-> "none"]

WinInit ==
    /\ win_now = 1000
    /\ win_pubs \in SeqsUpTo(PublicationPool, MaxPubs)
    /\ win_n \in {1, 3, 6, 12}
    /\ win_ret = NoWindow
    /\ win_pc = "idle"

WinIdle ==
    /\ win_now = 0
    /\ win_pubs = <<>>
    /\ win_n = 0
    /\ win_ret = NoWindow
    /\ win_pc = "idle"

Entered(entry, r) ==
    [entry |-> entry, outcome |-> r.outcome, window |-> r.window,
     processed |-> r.processed]

\* the app: run_search with uk_months_back = win_n
WinRunSearch ==
    /\ win_pc = "idle"
    /\ win_ret' = Entered("run_search", RunSearchWindow(win_pubs, win_now, win_n))
    /\ win_pc' = "done"
    /\ UNCHANGED <<win_now, win_pubs, win_n>>

\* a caller that wants win_n months and calls
\* search_uk_ministerial_meetings(search_term, use_index=False), which has
\* no parameter for them
WinSearchUkMinisterialMeetings ==
    /\ win_pc = "idle"
    /\ win_ret' = Entered("search_uk_ministerial_meetings",
                          SearchUkWindow(win_pubs, win_now))
    /\ win_pc' = "done"
    /\ UNCHANGED <<win_now, win_pubs, win_n>>

\* _search_uk_ministerial_meetings_live(search_term, months_back=win_n)
WinSearchLive ==
    /\ win_pc = "idle"
    /\ win_ret' = Entered("live", LiveWindow(win_pubs, win_now, win_n))
    /\ win_pc' = "done"
    /\ UNCHANGED <<win_now, win_pubs, win_n>>

(***************************************************************************)
(* load_uk_index called concurrently                                       *)
(***************************************************************************)
MaxThreads == 2
Threads == 1..MaxThreads

\* the object json.load or response.json() creates in thread t
SnapshotObject(t, payload) == [object |-> t, payload |-> payload]
Pending == [pending |-> TRUE]

ConInit ==
    /\ con_cache = EmptyCache
    /\ con_local \in {FileAbsent, SnapshotA}
    /\ con_remote \in {RemoteDown, SnapshotB}
    /\ con_pc = [t \in Threads |-> "check"]
    /\ con_ret = [t \in Threads |-> Pending]
    /\ con_loads = 0

ConIdle ==
    /\ con_cache = EmptyCache
    /\ con_local = FileAbsent
    /\ con_remote = RemoteDown
    /\ con_pc = <<>>
    /\ con_ret = <<>>
    /\ con_loads = 0

\* if _uk_index_cache["loaded"]: return _uk_index_cache["data"]
ConCheck(t) ==
    /\ con_pc[t] = "check"
    /\ IF con_cache.loaded
       THEN /\ con_ret' = [con_ret EXCEPT ![t] = con_cache.data]
            /\ con_pc' = [con_pc EXCEPT ![t] = "done"]
       ELSE /\ con_pc' = [con_pc EXCEPT ![t] = "local"]
            /\ UNCHANGED con_ret
    /\ UNCHANGED <<con_cache, con_local, con_remote, con_loads>>

\* the local branch: json.load(f) stores the snapshot when json is bound;
\* otherwise the except clause prints and the remote branch follows
ConTryLocal(t) ==
    /\ con_pc[t] = "local"
    /\ IF LocalReadable(con_local) /\ JsonImported
       THEN /\ con_cache' = [con_cache EXCEPT !.data = SnapshotObject(t, con_local)]
            /\ con_loads' = con_loads + 1
            /\ con_pc' = [con_pc EXCEPT ![t] = "set_loaded"]
       ELSE /\ con_pc' = [con_pc EXCEPT ![t] = "remote"]
            /\ UNCHANGED <<con_cache, con_loads>>
    /\ UNCHANGED <<con_local, con_remote, con_ret>>

\* response = requests.get(UK_INDEX_URL, timeout=30); raise_for_status()
ConRequest(t) ==
    /\ con_pc[t] = "remote"
    /\ IF con_remote = RemoteDown
       THEN /\ con_ret' = [con_ret EXCEPT ![t] = None]
            /\ con_pc' = [con_pc EXCEPT ![t] = "done"]
       ELSE /\ con_pc' = [con_pc EXCEPT ![t] = "set_data"]
            /\ UNCHANGED con_ret
    /\ UNCHANGED <<con_cache, con_local, con_remote, con_loads>>

\* _uk_index_cache["data"] = response.json()
ConSetData(t) ==
    /\ con_pc[t] = "set_data"
    /\ con_cache' = [con_cache EXCEPT !.data = SnapshotObject(t, con_remote)]
    /\ con_loads' = con_loads + 1
    /\ con_pc' = [con_pc EXCEPT ![t] = "set_loaded"]
    /\ UNCHANGED <<con_local, con_remote, con_ret>>

\* _uk_index_cache["loaded"] = True
ConSetLoaded(t) ==
    /\ con_pc[t] = "set_loaded"
    /\ con_cache' = [con_cache EXCEPT !.loaded = TRUE]
    /\ con_pc' = [con_pc EXCEPT ![t] = "return"]
    /\ UNCHANGED <<con_local, con_remote, con_ret, con_loads>>

\* return _uk_index_cache["data"]
ConReturn(t) ==
    /\ con_pc[t] = "return"
    /\ con_ret' = [con_ret EXCEPT ![t] = con_cache.data]
    /\ con_pc' = [con_pc EXCEPT ![t] = "done"]
    /\ UNCHANGED <<con_cache, con_local, con_remote, con_loads>>

(***************************************************************************)
(* Discovery of publications through the GOV.UK search API                 *)
(***************************************************************************)
MaxDiscoveries == 2
\* while True: the pages of one build discovery that the model follows
MaxPages == 6
\* max_results: int = 500 / max_results: int = 300
TransparencyMaxResults == 500
SeniorMaxResults == 300
\* batch_size = 100, page_size = 100
BatchSize == 100
\* cache_age < 86400, in hours
CacheHours == 24

MaxResultsOf(kind) ==
    IF kind = "transparency" THEN TransparencyMaxResults ELSE SeniorMaxResults

\* what one page request can bring: an exception (timeout, HTTP error,
\* undecodable body), or a payload with n results and a total
PageFailure == [ok |-> FALSE, n |-> 0, total |-> 0]
PageResponses ==
    {PageFailure,
     [ok |-> TRUE, n |-> 0, total |-> 150],
     [ok |-> TRUE, n |-> 50, total |-> 150],
     [ok |-> TRUE, n |-> BatchSize, total |-> 150],
     [ok |-> TRUE, n |-> BatchSize, total |-> 100000]}

\* the cache file: absent, or written at mtime; text is None when the file
\* was opened for writing and nothing was written into it
NoCacheFile == [exists |-> FALSE, text |-> None, mtime |-> 0, failed_run |-> FALSE]
NoDiscovery == [called |-> FALSE]

DscInit ==
    /\ dsc_kind \in {"transparency", "senior_officials", "build"}
    /\ dsc_now = 0
    /\ dsc_cache = NoCacheFile
    /\ dsc_calls = 0
    /\ dsc_pc = "idle"
    /\ dsc_start = 0
    /\ dsc_pubs = <<>>
    /\ dsc_requests = 0
    /\ dsc_failed = FALSE
    /\ dsc_ret = None
    /\ dsc_prev = NoDiscovery

DscIdle ==
    /\ dsc_kind = "build"
    /\ dsc_now = 0
    /\ dsc_cache = NoCacheFile
    /\ dsc_calls = 0
    /\ dsc_pc = "idle"
    /\ dsc_start = 0
    /\ dsc_pubs = <<>>
    /\ dsc_requests = 0
    /\ dsc_failed = FALSE
    /\ dsc_ret = None
    /\ dsc_prev = NoDiscovery

\* the cached list a live discovery returns at once: the file exists, is
\* younger than 24 hours, json.load succeeds and 'publications' is not
\* empty; None otherwise
CachedPublications(cache, now) ==
    IF cache.exists /\ now - cache.mtime < CacheHours /\ JsonImported
       /\ cache.text # None /\ cache.text # <<>>
    THEN cache.text
    ELSE None

\* a discovery call starts: the live discoveries look into their cache
\* file first, discover_publications of the build has none
DscCall ==
    /\ dsc_pc \in {"idle", "done"}
    /\ dsc_calls < MaxDiscoveries
    /\ dsc_calls' = dsc_calls + 1
    /\ dsc_prev' = [called |-> dsc_pc = "done", ret |-> dsc_ret,
                    failed |-> dsc_failed, requests |-> dsc_requests,
                    at |-> dsc_cache.mtime, next_at |-> dsc_now]
    /\ dsc_start' = 0
    /\ dsc_failed' = FALSE
    /\ dsc_requests' = 0
    /\ IF dsc_kind # "build" /\ CachedPublications(dsc_cache, dsc_now) # None
       THEN /\ dsc_ret' = CachedPublications(dsc_cache, dsc_now)
            /\ dsc_pubs' = <<>>
            /\ dsc_pc' = "done"
       ELSE /\ dsc_ret' = None
            /\ dsc_pubs' = <<>>
            /\ dsc_pc' = "paging"
    /\ UNCHANGED <<dsc_kind, dsc_now, dsc_cache>>

\* the publications a page adds to the list
PageOf(start, response) ==
    IF response.n = 0 THEN <<>> ELSE <<[start |-> start, n |-> response.n]>>

\* one pass of the while loop of a live discovery
DscLivePage ==
    /\ dsc_pc = "paging"
    /\ dsc_kind # "build"
    /\ \E response \in PageResponses :
           /\ dsc_requests' = dsc_requests + 1
           /\ IF ~response.ok
              THEN /\ dsc_failed' = TRUE
                   /\ dsc_pc' = "save"
                   /\ UNCHANGED <<dsc_start, dsc_pubs>>
              ELSE IF response.n = 0
              THEN /\ dsc_pc' = "save"
                   /\ UNCHANGED <<dsc_start, dsc_pubs, dsc_failed>>
              ELSE /\ dsc_pubs' = dsc_pubs \o PageOf(dsc_start, response)
                   /\ dsc_start' = dsc_start + BatchSize
                   /\ dsc_pc' = IF response.n < BatchSize
                                   \/ dsc_start + BatchSize >= MaxResultsOf(dsc_kind)
                                THEN "save" ELSE "paging"
                   /\ UNCHANGED dsc_failed
    /\ UNCHANGED <<dsc_kind, dsc_now, dsc_cache, dsc_calls, dsc_ret, dsc_prev>>

\* the end of a live discovery: open(cache, 'w') creates or empties the
\* file, json.dump writes the list when json is bound (otherwise the
\* NameError is swallowed), and the list is returned
DscSave ==
    /\ dsc_pc = "save"
    /\ dsc_cache' = [exists |-> TRUE,
                     text |-> IF JsonImported THEN dsc_pubs ELSE None,
                     mtime |-> dsc_now, failed_run |-> dsc_failed]
    /\ dsc_ret' = dsc_pubs
    /\ dsc_pc' = "done"
    /\ UNCHANGED <<dsc_kind, dsc_now, dsc_calls, dsc_start, dsc_pubs, dsc_requests,
                   dsc_failed, dsc_prev>>

\* one pass of the while True loop of discover_publications, called by
\* build_index without try: an exception leaves both functions
DscBuildPage ==
    /\ dsc_pc = "paging"
    /\ dsc_kind = "build"
    /\ dsc_requests < MaxPages
    /\ \E response \in PageResponses :
           /\ dsc_requests' = dsc_requests + 1
           /\ IF ~response.ok
              THEN /\ dsc_failed' = TRUE
                   /\ dsc_pc' = "raised"
                   /\ UNCHANGED <<dsc_start, dsc_pubs, dsc_ret>>
              ELSE IF response.n = 0
              THEN /\ dsc_pc' = "done"
                   /\ dsc_ret' = dsc_pubs
                   /\ UNCHANGED <<dsc_start, dsc_pubs, dsc_failed>>
              ELSE /\ dsc_pubs' = dsc_pubs \o PageOf(dsc_start, response)
                   /\ dsc_start' = dsc_start + BatchSize
                   /\ IF dsc_start + BatchSize >= response.total
                      THEN /\ dsc_pc' = "done"
                           /\ dsc_ret' = dsc_pubs \o PageOf(dsc_start, response)
                      ELSE /\ dsc_pc' = "paging"
                           /\ UNCHANGED dsc_ret
                   /\ UNCHANGED dsc_failed
    /\ UNCHANGED <<dsc_kind, dsc_now, dsc_cache, dsc_calls, dsc_prev>>

\* twelve hours pass between two calls
DscTick ==
    /\ dsc_pc \in {"idle", "done"}
    /\ dsc_now < CacheHours + (CacheHours \div 2)
    /\ dsc_now' = dsc_now + (CacheHours \div 2)
    /\ UNCHANGED <<dsc_kind, dsc_cache, dsc_calls, dsc_pc, dsc_start, dsc_pubs,
                   dsc_requests, dsc_failed, dsc_ret, dsc_prev>>

(***************************************************************************)
(* Fetching the CSV documents                                              *)
(***************************************************************************)
FetchIdle ==
    /\ f_kind = "build"
    /\ f_all = <<>>
    /\ f_unique = <<>>
    /\ f_i = 1
    /\ f_files = <<>>
    /\ f_fetched = <<>>
    /\ f_parsed = <<>>
    /\ f_seen = None
    /\ f_pc = "dedup"

FinalIdle == DscIdle /\ FetchIdle
LaterIdle == BuildIdle /\ AggIdle /\ WinIdle /\ ConIdle /\ FinalIdle

(***************************************************************************)
(* Specifications                                                          *)
(***************************************************************************)
\* the deduplication step on every input up to MaxLen records
InitDedup == DedupInit /\ UkIdle /\ SaIdle /\ RunIdle /\ LaterIdle
NextDedup ==
    \/ BuildDedupStep /\ UNCHANGED <<ukVars, saVars, runVars, laterVars>>
    \/ LiveDedupStep /\ UNCHANGED <<ukVars, saVars, runVars, laterVars>>
    \/ SeniorDedupStep /\ UNCHANGED <<ukVars, saVars, runVars, laterVars>>
    \/ DedupAgain /\ UNCHANGED <<ukVars, saVars, runVars, laterVars>>
SpecDedup == InitDedup /\ [][NextDedup]_vars

\* the index loader and the UK search, called in any order while the
\* snapshot sources change
Init == DedupIdle /\ UkInit /\ SaIdle /\ RunIdle /\ LaterIdle
Next ==
    \/ CallLoadUkIndex /\ UNCHANGED <<dedupVars, saVars, runVars, laterVars>>
    \/ CallSearchUkIndex /\ UNCHANGED <<dedupVars, saVars, runVars, laterVars>>
    \/ CallSearchUkMinisterialMeetings /\ UNCHANGED <<dedupVars, saVars, runVars, laterVars>>
    \/ SnapshotFileChanges /\ UNCHANGED <<dedupVars, saVars, runVars, laterVars>>
    \/ RemoteIndexChanges /\ UNCHANGED <<dedupVars, saVars, runVars, laterVars>>
Spec == Init /\ [][Next]_vars

\* one call of search_all
InitSearchAll == DedupIdle /\ UkIdle /\ SaInit /\ RunIdle /\ LaterIdle
NextSearchAll ==
    \/ SearchAllStep /\ UNCHANGED <<dedupVars, ukVars, runVars, laterVars>>
    \/ SearchAllReturn /\ UNCHANGED <<dedupVars, ukVars, runVars, laterVars>>
SpecSearchAll == InitSearchAll /\ [][NextSearchAll]_vars

\* one run_search of the app in a process where search_uk_index is called
\* at any time before and after it
InitRun == DedupIdle /\ RunInit /\ SaIdle /\ LaterIdle
NextRun ==
    \/ CallRunSearch /\ UNCHANGED <<dedupVars, saVars, laterVars>>
    \/ RunSearchUkIndex /\ UNCHANGED <<dedupVars, saVars, laterVars>>
SpecRun == InitRun /\ [][NextRun]_vars

\* one build of the index, with the snapshot file it replaces
InitBuild ==
    /\ DedupIdle /\ UkIdle /\ SaIdle /\ RunIdle /\ FinalIdle
    /\ BuildInit /\ AggIdle /\ WinIdle /\ ConIdle
NextBuild ==
    \/ BuildResolve /\ UNCHANGED <<dedupVars, ukVars, saVars, runVars, finalVars, aggVars, winVars, conVars>>
    \/ BuildParseDoc /\ UNCHANGED <<dedupVars, ukVars, saVars, runVars, finalVars, aggVars, winVars, conVars>>
    \/ BuildIndexStep /\ UNCHANGED <<dedupVars, ukVars, saVars, runVars, finalVars, aggVars, winVars, conVars>>
    \/ BuildOpen /\ UNCHANGED <<dedupVars, ukVars, saVars, runVars, finalVars, aggVars, winVars, conVars>>
    \/ BuildWrite /\ UNCHANGED <<dedupVars, ukVars, saVars, runVars, finalVars, aggVars, winVars, conVars>>
    \/ BuildReturn /\ UNCHANGED <<dedupVars, ukVars, saVars, runVars, finalVars, aggVars, winVars, conVars>>
    \/ BuildInterrupted /\ UNCHANGED <<dedupVars, ukVars, saVars, runVars, finalVars, aggVars, winVars, conVars>>
    \/ BuildQuery /\ UNCHANGED <<dedupVars, ukVars, saVars, runVars, finalVars, aggVars, winVars, conVars>>
SpecBuild == InitBuild /\ [][NextBuild]_vars

\* one search_uk_index call over a loaded snapshot
InitAggregate ==
    /\ DedupIdle /\ UkIdle /\ SaIdle /\ RunIdle /\ FinalIdle
    /\ BuildIdle /\ AggInit /\ WinIdle /\ ConIdle
NextAggregate ==
    AggSearchUkIndex
        /\ UNCHANGED <<dedupVars, ukVars, saVars, runVars, finalVars, buildVars, winVars, conVars>>
SpecAggregate == InitAggregate /\ [][NextAggregate]_vars

\* one UK search by a caller that chose a recency window
InitWindow ==
    /\ DedupIdle /\ UkIdle /\ SaIdle /\ RunIdle /\ FinalIdle
    /\ BuildIdle /\ AggIdle /\ WinInit /\ ConIdle
NextWindow ==
    \/ WinRunSearch
           /\ UNCHANGED <<dedupVars, ukVars, saVars, runVars, finalVars, buildVars, aggVars,
                          conVars>>
    \/ WinSearchUkMinisterialMeetings
           /\ UNCHANGED <<dedupVars, ukVars, saVars, runVars, finalVars, buildVars, aggVars,
                          conVars>>
    \/ WinSearchLive
           /\ UNCHANGED <<dedupVars, ukVars, saVars, runVars, finalVars, buildVars, aggVars,
                          conVars>>
SpecWindow == InitWindow /\ [][NextWindow]_vars

\* the threads of one process call load_uk_index, in any interleaving
InitConcurrent ==
    /\ DedupIdle /\ UkIdle /\ SaIdle /\ RunIdle /\ FinalIdle
    /\ BuildIdle /\ AggIdle /\ WinIdle /\ ConInit
otherThanCon == <<dedupVars, ukVars, saVars, runVars, finalVars, buildVars, aggVars, winVars>>
NextConcurrent ==
    \/ \E t \in Threads : ConCheck(t) /\ UNCHANGED otherThanCon
    \/ \E t \in Threads : ConTryLocal(t) /\ UNCHANGED otherThanCon
    \/ \E t \in Threads : ConRequest(t) /\ UNCHANGED otherThanCon
    \/ \E t \in Threads : ConSetData(t) /\ UNCHANGED otherThanCon
    \/ \E t \in Threads : ConSetLoaded(t) /\ UNCHANGED otherThanCon
    \/ \E t \in Threads : ConReturn(t) /\ UNCHANGED otherThanCon
SpecConcurrent == InitConcurrent /\ [][NextConcurrent]_vars

\* discovery calls of one kind, hours apart
InitDiscover ==
    /\ DedupIdle /\ UkIdle /\ SaIdle /\ RunIdle
    /\ BuildIdle /\ AggIdle /\ WinIdle /\ ConIdle /\ DscInit /\ FetchIdle
otherThanDsc ==
    <<dedupVars, ukVars, saVars, runVars, buildVars, aggVars, winVars, conVars,
      fetchVars>>
NextDiscover ==
    \/ DscCall /\ UNCHANGED otherThanDsc
    \/ DscLivePage /\ UNCHANGED otherThanDsc
    \/ DscSave /\ UNCHANGED otherThanDsc
    \/ DscBuildPage /\ UNCHANGED otherThanDsc
    \/ DscTick /\ UNCHANGED otherThanDsc
SpecDiscover == InitDiscover /\ [][NextDiscover]_vars

(***************************************************************************)
(* Fetching the CSV documents: model                                       *)
(***************************************************************************)
MaxUrls == 3
KeyLength == 100

\* \w of re for str: letters, digits and the underscore
WordChars ==
    {UpperCase[i] : i \in 1..Len(UpperCase)} \cup {LowerCase[i] : i \in 1..Len(LowerCase)}
        \cup {"0", "1", "2", "3", "4", "5", "6", "7", "8", "9", "_"}

\* re.sub(r'[^\w]', '_', s)
SubNonWord(s) == [i \in 1..Len(s) |-> IF s[i] \in WordChars THEN s[i] ELSE "_"]

\* s.split(sep)[-1]: what follows the last sep, or all of s
LastPart(s, sep) ==
    LET at == {i \in 1..Len(s) : s[i] = sep}
    IN  IF at = {} THEN s
        ELSE SubSeq(s, (CHOOSE i \in at : \A j \in at : j <= i) + 1, Len(s))

\* cache_key = re.sub(r'[^\w]', '_', csv_url.split('/')[-1])[:100]
CacheKey(csv_url) == Prefix(SubNonWord(LastPart(csv_url, "/")), KeyLength)

\* the deduplication of the CSV URLs: the first (dept, url) of each url stays
RECURSIVE UniqueByUrlLoop(_, _, _, _)
UniqueByUrlLoop(all, i, seen_urls, unique) ==
    IF i > Len(all) THEN unique
    ELSE IF all[i].url \in seen_urls
         THEN UniqueByUrlLoop(all, i + 1, seen_urls, unique)
         ELSE UniqueByUrlLoop(all, i + 1, seen_urls \cup {all[i].url},
                              Append(unique, all[i]))
UniqueByUrl(all) == UniqueByUrlLoop(all, 1, {}, <<>>)

\* CSV URLs as the publications list them
UrlHoM == <<"h", "o", "/", "m", ".", "c", "s", "v">>
UrlMoM == <<"m", "o", "/", "m", ".", "c", "s", "v">>
UrlHoN == <<"h", "o", "/", "n", ".", "c", "s", "v">>
UrlHoDash == <<"h", "o", "/", "m", "-", "c", "s", "v">>
LongName == [i \in 1..KeyLength |-> "x"]
UrlLong1 == <<"h", "o", "/">> \o LongName \o <<"1">>
UrlLong2 == <<"h", "o", "/">> \o LongName \o <<"2">>
CsvLinks ==
    { [dept |-> "Home Office", url |-> UrlHoM],
      [dept |-> "Cabinet Office", url |-> UrlHoM],
      [dept |-> "Ministry Of Defence", url |-> UrlMoM],
      [dept |-> "Home Office", url |-> UrlHoN],
      [dept |-> "Home Office", url |-> UrlHoDash],
      [dept |-> "Home Office", url |-> UrlLong1],
      [dept |-> "Home Office", url |-> UrlLong2] }
LinkLists == UNION {[1..n -> CsvLinks] : n \in 1..MaxUrls}

\* what the server holds under a URL, and what an old cache file holds
ContentOf(url) == <<[from |-> url, row |-> 1], [from |-> url, row |-> 2]>>
OldContent == <<[from |-> <<"o", "l", "d">>, row |-> 1]>>
NoCacheCsv == [exists |-> FALSE, fresh |-> FALSE, content |-> <<>>, writing |-> FALSE]
StaleCacheCsv == [exists |-> TRUE, fresh |-> FALSE, content |-> OldContent, writing |-> FALSE]
FileAt(files, key) == IF key \in DOMAIN files THEN files[key] ELSE NoCacheCsv
PutFile(files, key, file) ==
    [k \in DOMAIN files \cup {key} |-> IF k = key THEN file ELSE files[k]]

FetchInit ==
    /\ f_kind \in {"live", "build"}
    /\ f_all \in LinkLists
    /\ f_unique = <<>>
    /\ f_i = 1
    /\ f_files \in {<<>>, PutFile(<<>>, CacheKey(UrlHoM), StaleCacheCsv)}
    /\ f_fetched = <<>>
    /\ f_parsed = <<>>
    /\ f_seen = None
    /\ f_pc = "dedup"

\* seen_urls / unique_csv_urls
FetchDedup ==
    /\ f_pc = "dedup"
    /\ f_unique' = UniqueByUrl(f_all)
    /\ f_pc' = "next"
    /\ UNCHANGED <<f_kind, f_all, f_i, f_files, f_fetched, f_parsed, f_seen>>

\* build_index, step 4: download_and_parse_csv(csv_info["url"])
FetchBuildCsv ==
    /\ f_kind = "build"
    /\ f_pc = "next"
    /\ f_i <= Len(f_unique)
    /\ \E ok \in BOOLEAN :
          LET url == f_unique[f_i].url
          IN  /\ f_fetched' = Append(f_fetched, url)
              /\ f_parsed' = Append(f_parsed,
                     [url |-> url, parsed |-> ok,
                      content |-> IF ok THEN ContentOf(url) ELSE <<>>])
    /\ f_i' = f_i + 1
    /\ UNCHANGED <<f_kind, f_all, f_unique, f_files, f_seen, f_pc>>

\* live search, step 3: download_uk_meetings_csv up to open(cache_file, 'wb'),
\* or, with a cache file of less than 24 hours, parse_uk_csv_for_matches of it
FetchLiveCsv ==
    /\ f_kind = "live"
    /\ f_pc = "next"
    /\ f_i <= Len(f_unique)
    /\ LET url == f_unique[f_i].url
           cache_key == CacheKey(url)
           cache_file == FileAt(f_files, cache_key)
       IN  IF cache_file.exists /\ cache_file.fresh
           THEN /\ f_parsed' = Append(f_parsed,
                       [url |-> url, parsed |-> TRUE, content |-> cache_file.content])
                /\ f_i' = f_i + 1
                /\ UNCHANGED <<f_files, f_fetched, f_pc>>
           ELSE \E ok \in BOOLEAN :
                  /\ f_fetched' = Append(f_fetched, url)
                  /\ IF ok
                     THEN /\ f_files' = PutFile(f_files, cache_key,
                                 [exists |-> TRUE, fresh |-> TRUE, content |-> <<>>,
                                  writing |-> TRUE])
                          /\ f_pc' = "write"
                          /\ UNCHANGED <<f_i, f_parsed>>
                     ELSE /\ f_parsed' = Append(f_parsed,
                                 [url |-> url, parsed |-> FALSE, content |-> <<>>])
                          /\ f_i' = f_i + 1
                          /\ UNCHANGED <<f_files, f_pc>>
    /\ UNCHANGED <<f_kind, f_all, f_unique, f_seen>>

\* f.write(response.content), the file is closed, and the file is parsed
FetchLiveWrite ==
    /\ f_pc = "write"
    /\ LET url == f_unique[f_i].url
           cache_key == CacheKey(url)
       IN  /\ f_files' = PutFile(f_files, cache_key,
                  [exists |-> TRUE, fresh |-> TRUE, content |-> ContentOf(url),
                   writing |-> FALSE])
           /\ f_parsed' = Append(f_parsed,
                  [url |-> url, parsed |-> TRUE, content |-> ContentOf(url)])
    /\ f_i' = f_i + 1
    /\ f_pc' = "next"
    /\ UNCHANGED <<f_kind, f_all, f_unique, f_fetched, f_seen>>

FetchFinish ==
    /\ f_pc = "next"
    /\ f_i > Len(f_unique)
    /\ f_pc' = "done"
    /\ UNCHANGED <<f_kind, f_all, f_unique, f_i, f_files, f_fetched, f_parsed, f_seen>>

\* a second search in another session: download_uk_meetings_csv finds the cache
\* file less than 24 hours old and parse_uk_csv_for_matches reads it; of a file
\* that is being written, any part written so far can be on disk
FetchReader ==
    /\ f_kind = "live"
    /\ f_pc \in {"next", "write"}
    /\ \E cache_key \in DOMAIN f_files :
          LET cache_file == f_files[cache_key]
          IN  /\ cache_file.exists /\ cache_file.fresh
              /\ IF cache_file.writing
                 THEN \E n \in 0..Len(ContentOf(f_unique[f_i].url)) :
                        f_seen' = [key |-> cache_key,
                                   content |-> SubSeq(ContentOf(f_unique[f_i].url), 1, n)]
                 ELSE f_seen' = [key |-> cache_key, content |-> cache_file.content]
    /\ UNCHANGED <<f_kind, f_all, f_unique, f_i, f_files, f_fetched, f_parsed, f_pc>>

\* the CSV documents of one build or one live search
InitFetch ==
    /\ DedupIdle /\ UkIdle /\ SaIdle /\ RunIdle
    /\ BuildIdle /\ AggIdle /\ WinIdle /\ ConIdle /\ DscIdle /\ FetchInit
otherThanFetch ==
    <<dedupVars, ukVars, saVars, runVars, buildVars, aggVars, winVars, conVars,
      dscVars>>
NextFetch ==
    \/ FetchDedup /\ UNCHANGED otherThanFetch
    \/ FetchBuildCsv /\ UNCHANGED otherThanFetch
    \/ FetchLiveCsv /\ UNCHANGED otherThanFetch
    \/ FetchLiveWrite /\ UNCHANGED otherThanFetch
    \/ FetchFinish /\ UNCHANGED otherThanFetch
    \/ FetchReader /\ UNCHANGED otherThanFetch
SpecFetch == InitFetch /\ [][NextFetch]_vars

(***************************************************************************)
(* Properties                                                              *)
(***************************************************************************)
\* the key of a record, as the specification names it
KeyOf(m) == <<m.minister, m.date, m.organisation>>

RECURSIVE IsSubsequence(_, _)
IsSubsequence(a, b) ==
    IF a = <<>> THEN TRUE
    ELSE IF b = <<>> THEN FALSE
    ELSE IF a[1] = b[1] THEN IsSubsequence(Tail(a), Tail(b))
    ELSE IsSubsequence(a, Tail(b))

\* the first record of ms that carries key k
FirstWithKey(ms, k) ==
    ms[CHOOSE i \in 1..Len(ms) :
          KeyOf(ms[i]) = k /\ \A j \in 1..(i - 1) : KeyOf(ms[j]) # k]

DedupDone == dedup_pc \in {"build", "live", "senior"}

\* C1: the deduplication step of build_index and of the live searches
\* outputs a subsequence of its input in which no two records share a
\* (minister, date, organisation) key, and for every key of the input the
\* record kept is the first input record with that key.
C1_DedupOneRecordPerKey ==
    DedupDone =>
        /\ IsSubsequence(unique_meetings, all_meetings)
        /\ \A i, j \in 1..Len(unique_meetings) :
               i # j => KeyOf(unique_meetings[i]) # KeyOf(unique_meetings[j])
        /\ \A i \in 1..Len(all_meetings) :
               \E j \in 1..Len(unique_meetings) :
                   unique_meetings[j] = FirstWithKey(all_meetings, KeyOf(all_meetings[i]))
        /\ \A j \in 1..Len(unique_meetings) :
               unique_meetings[j] = FirstWithKey(all_meetings, KeyOf(unique_meetings[j]))

\* the same row came from two source documents and one record is left
C1_Witness ==
    /\ dedup_pc = "build"
    /\ Len(all_meetings) = 2
    /\ KeyOf(all_meetings[1]) = KeyOf(all_meetings[2])
    /\ all_meetings[1].department # all_meetings[2].department
    /\ unique_meetings = <<all_meetings[1]>>

\* C2: the deduplication step run on its own output returns that output
\* unchanged, the same records in the same order.
C2_DedupIdempotent ==
    dedup_pc = "rerun" => rerun_meetings = unique_meetings

\* the second run was given an output from which duplicates had been removed
C2_Witness ==
    /\ dedup_pc = "rerun"
    /\ Len(unique_meetings) >= 2
    /\ Len(unique_meetings) < Len(all_meetings)
    /\ rerun_meetings = unique_meetings

\* a call that went through load_uk_index with nothing cached yet
FreshLoad == last_call.load.called /\ ~last_call.loaded_before
LocalUnusable(lf) == lf \in {FileAbsent, FileUnreadable}

\* C3: load_uk_index prefers the local snapshot file: a readable local
\* snapshot is the one returned and no remote request is made; the remote
\* URL is requested only when the local file is absent or unreadable; when
\* both sources fail the call returns None.
C3_LocalSnapshotPreferred ==
    FreshLoad =>
        /\ LocalReadable(last_call.local_before) =>
               /\ last_call.load.ret = last_call.local_before
               /\ last_call.load.requests = 0
        /\ last_call.load.requests > 0 => ~LocalReadable(last_call.local_before)
        /\ (LocalUnusable(last_call.local_before)
              /\ last_call.remote_before = RemoteDown) => last_call.load.ret = None

\* C4: once load_uk_index has returned a snapshot, every later call in the
\* process returns that same snapshot, reads no file and makes no request,
\* whatever the two sources hold by then.
C4_SnapshotRetained ==
    (last_call.load.called /\ last_call.snapshot_before # None) =>
        /\ last_call.load.ret = last_call.snapshot_before
        /\ last_call.load.reads = 0
        /\ last_call.load.requests = 0
        /\ first_snapshot = last_call.snapshot_before

\* a later call was served from the cache although both sources had changed
\* since the snapshot was loaded
C4_Witness ==
    /\ last_call.load.called
    /\ last_call.snapshot_before = SnapshotB
    /\ last_call.remote_before # SnapshotB
    /\ last_call.local_before = SnapshotA
    /\ last_call.load.ret = SnapshotB
    /\ last_call.load.reads = 0
    /\ last_call.op = "load_uk_index"

\* C5: the live search is used only when no index is available: with the
\* index loaded and zero index records matching, the call of
\* search_uk_ministerial_meetings returns no result and the live search is
\* not run.
C5_NoLiveSearchWhenIndexLoaded ==
    (/\ last_call.op = "search_uk_ministerial_meetings"
     /\ last_call.use_index
     /\ last_call.load.ret \in Snapshots
     /\ last_call.index_matches = 0) =>
        /\ last_call.live_runs = 0
        /\ last_call.outcome = "returned"
        /\ last_call.ret = None

\* C6: when neither snapshot source can be loaded, the call of
\* search_uk_ministerial_meetings runs the live search exactly once and
\* returns its outcome without raising: the matched records when there is a
\* match, no result when there is none.
C6_LiveFallbackReturns ==
    (/\ last_call.op = "search_uk_ministerial_meetings"
     /\ last_call.use_index
     /\ FreshLoad
     /\ LocalUnusable(last_call.local_before)
     /\ last_call.remote_before = RemoteDown) =>
        /\ last_call.live_runs = 1
        /\ last_call.outcome = "returned"
        /\ last_call.live_matches > 0 =>
               /\ last_call.ret # None
               /\ last_call.ret.meetings_count > 0
        /\ last_call.live_matches = 0 => last_call.ret = None

\* the last pass of the loop of search_all that handled jur_id
LastEntry(jur_id) ==
    sa_outcome[CHOOSE i \in 1..Len(sa_outcome) :
                  /\ sa_outcome[i].id = jur_id
                  /\ \A j \in (i + 1)..Len(sa_outcome) : sa_outcome[j].id # jur_id]

\* the entry a search leaves: None when it raised, else what it returned
EntryFor(value) == IF value = Raised("Exception") THEN None ELSE value

SaRequestedRegistered ==
    {sa_requested[i] : i \in 1..Len(sa_requested)} \cap Registered

\* C7 as stated: search_all returns; every requested registered
\* jurisdiction is searched and has an entry, None when its search raised
\* and what its search function returned otherwise.
C7_EveryRequestedSearched ==
    sa_pc # "loop" =>
        /\ sa_pc = "returned"
        /\ Len(sa_outcome) = Len(sa_requested)
        /\ \A i \in 1..Len(sa_requested) :
               /\ sa_outcome[i].id = sa_requested[i]
               /\ sa_requested[i] \in Registered => sa_outcome[i].did = "called"
        /\ \A jur_id \in SaRequestedRegistered :
               /\ jur_id \in DOMAIN sa_results
               /\ sa_results[jur_id] = EntryFor(LastEntry(jur_id).value)

\* C7: search_all isolates jurisdiction failures: it returns; every
\* requested registered jurisdiction has an entry; with skip_slow set "uk"
\* is not searched and its entry is None; every other requested registered
\* jurisdiction is searched, whatever the searches before it did, and its
\* entry is None when its search raised and what its search function
\* returned otherwise.
C7_SearchAllIsolatesFailures ==
    sa_pc # "loop" =>
        /\ sa_pc = "returned"
        /\ Len(sa_outcome) = Len(sa_requested)
        /\ \A i \in 1..Len(sa_requested) :
               /\ sa_outcome[i].id = sa_requested[i]
               /\ sa_requested[i] \in Registered =>
                      sa_outcome[i].did =
                          IF sa_skip_slow /\ sa_requested[i] = "uk" THEN "skipped"
                          ELSE "called"
        /\ \A jur_id \in SaRequestedRegistered :
               /\ jur_id \in DOMAIN sa_results
               /\ sa_results[jur_id] =
                      IF sa_skip_slow /\ jur_id = "uk" THEN None
                      ELSE EntryFor(LastEntry(jur_id).value)

\* every jurisdiction was requested with skip_slow set: the first search
\* raised, the next one returned data, and "uk" was skipped
C7_Witness ==
    /\ sa_pc = "returned"
    /\ sa_requested = Registry
    /\ sa_skip_slow
    /\ sa_outcome[1].value = Raised("Exception")
    /\ sa_results["eu"] = None
    /\ sa_results["france"] = Found("france")
    /\ sa_outcome[4].did = "skipped"
    /\ sa_results["slovenia"] = Found("slovenia")

RunDone == run_pc # "idle"

\* C8: run_search treats one jurisdiction's error as a partial result: when
\* the search of a selected jurisdiction raises, run_search still returns,
\* that jurisdiction's result is None and every other selected jurisdiction
\* has been searched.
C8_RunSearchPartialResult ==
    (RunDone /\ run_failed # {}) =>
        /\ run_pc = "returned"
        /\ \A jur_id \in run_failed : run_results[jur_id] = None
        /\ run_searched = run_args.selected

\* the (name, term) pairs a jurisdiction should report for the terms of an
\* OR query: each term resolved on its own
ExpectedTagged(jur_id, or_terms) ==
    LET Names(term) ==
            IF jur_id = "uk"
            THEN IF uk_index_cache.loaded /\ "meetings" \in DOMAIN uk_index_cache.data
                 THEN {uk_index_cache.data.meetings[p].organisation :
                          p \in MatchingPositions(uk_index_cache.data.meetings,
                                                  Lower(term))}
                 ELSE {}
            ELSE {RegisterOf(jur_id)[n].name :
                     n \in {k \in 1..Len(RegisterOf(jur_id)) :
                               Contains(Lower(term), Lower(RegisterOf(jur_id)[k].name))}}
    IN UNION {{<<name, or_terms[i]>> : name \in Names(or_terms[i])} :
                 i \in 1..Len(or_terms)}

\* the (name, term) pairs a jurisdiction's result carries
TaggedPairs(result) ==
    IF result = None THEN {}
    ELSE IF "multiple_entities" \in DOMAIN result
    THEN {<<result.multiple_entities[n].matched_name,
            result.multiple_entities[n].matched_term>> :
              n \in 1..Len(result.multiple_entities)}
    ELSE IF "entries" \in DOMAIN result
    THEN {<<result.entries[n].name, Get(result.entries[n], "matched_term", <<>>)>> :
              n \in 1..Len(result.entries)}
    ELSE IF "meetings" \in DOMAIN result
    THEN {<<result.meetings[n].organisation,
            Get(result.meetings[n], "matched_term", <<>>)>> :
              n \in 1..Len(result.meetings)}
    ELSE {}

\* C9: for an OR query run_search returns, for every selected jurisdiction,
\* the union of the matches of each term resolved on its own, every match
\* tagged with the term that produced it.
C9_OrQueryPerTermUnion ==
    (RunDone /\ IsOrQuery(run_args.search_term)) =>
        /\ run_pc = "returned"
        /\ \A jur_id \in run_args.selected :
               TaggedPairs(run_results[jur_id]) =
                   ExpectedTagged(jur_id, ExtractOrTerms(run_args.search_term))

\* the records of a result handed to a caller, as the caller sees them now:
\* the result's list holds the record objects of the cache
HandedOutNow == PickPositions(uk_index_cache.data.meetings, handed_out.refs, 1)

SnapshotRead == ReadSnapshotFile(index_file)
\* the complete snapshots a reader may obtain: the one the file held before
\* the build and, once the index exists, the new one
CompleteSnapshots ==
    {ReadSnapshotFile(previous_file)}
    \cup (IF b_index = None THEN {} ELSE {JsonLoad(JsonDump(b_index))})

\* C11: build_index replaces the snapshot file atomically: at every point
\* of a build, a failed or interrupted one included, a reader that loads
\* the file obtains the complete previous snapshot or the complete new one,
\* never an empty or partly written one.
C11_AtomicReplace == SnapshotRead \in CompleteSnapshots

\* the tagged records of the documents of which nothing failed, in order
RECURSIVE CleanMeetings(_, _)
CleanMeetings(docs, i) ==
    IF i > Len(docs) THEN <<>>
    ELSE (IF docs[i].resolve = "ok"
          THEN TagDocument(DownloadAndParseCsvAllOrNothing(docs[i]), docs[i])
          ELSE <<>>)
         \o CleanMeetings(docs, i + 1)

\* C12: a failure to fetch or parse one document, or to resolve one
\* publication to its CSV URLs, never aborts build_index; the failing document
\* contributes no record at all, and the snapshot holds exactly the
\* deduplicated records of the documents that did not fail.
C12_FailedDocumentsSkipped ==
    /\ b_pc # "raised"
    /\ b_index # None => b_index.meetings = Deduplicate(CleanMeetings(b_docs, 1))

\* whether a raw row carries a value in a recognised organisation column
HasOrganisationValue(row) ==
    \E h \in DOMAIN row :
        /\ \E k \in 1..Len(BuildOrgKeys) : Strip(Lower(h)) = BuildOrgKeys[k]
        /\ Strip(row[h]) # <<>>
\* the records that document d has put into all_meetings
RecordsOfDocument(d) ==
    {i \in 1..Len(b_all) : b_all[i]["department"] = b_docs[d].dept}
WellFormedRecord(m) ==
    /\ m["organisation"] # <<>>
    /\ m["minister"] # <<>> \/ m["date"] # <<>>

\* C18: every record of the snapshot under construction and of the built
\* snapshot has a non-empty organisation and a non-empty minister or date; the
\* rows without a value in a recognised organisation column produce no record
\* (a document yields at most as many records as it has rows with one) and
\* do not stop the build.
C18_RecordsHaveOrganisation ==
    /\ \A i \in 1..Len(b_all) : WellFormedRecord(b_all[i])
    /\ b_index # None =>
           \A i \in 1..Len(b_index.meetings) : WellFormedRecord(b_index.meetings[i])
    /\ \A d \in 1..Len(b_docs) :
           Cardinality(RecordsOfDocument(d))
               <= Cardinality({k \in 1..Len(b_docs[d].rows) :
                                  HasOrganisationValue(b_docs[d].rows[k])})
    /\ (\A d \in 1..Len(b_docs) : b_docs[d].resolve # "malformed") => b_pc # "raised"

\* a build has finished over a document holding a row without organisation
\* and a good row: the good row's record is in the snapshot
C18_Witness ==
    /\ b_pc = "done"
    /\ \E d \in 1..Len(b_docs) :
           /\ b_docs[d].rows = <<RawNoOrg, RawShell>>
           /\ b_docs[d].resolve = "ok"
           /\ b_docs[d].fail_at = 0
           /\ \E i \in 1..Len(b_index.meetings) :
                  b_index.meetings[i]["department"] = b_docs[d].dept

\* the aggregation key of a matched record
FieldKey(m, field) == IF field = "year" THEN IndexYear(m["date"]) ELSE m[field]
\* the position at which a key is first seen among the matches
FirstSeen(matches, field, key) ==
    CHOOSE i \in 1..Len(matches) :
        /\ FieldKey(matches[i], field) = key
        /\ \A j \in 1..(i - 1) : FieldKey(matches[j], field) # key
\* items in descending count, items of equal count in first-seen order
OrderedByCount(items, matches, field) ==
    \A i, j \in 1..Len(items) :
        i < j =>
            \/ items[i][2] > items[j][2]
            \/ /\ items[i][2] = items[j][2]
               /\ FirstSeen(matches, field, items[i][1])
                      < FirstSeen(matches, field, items[j][1])
\* items in descending order of their keys
OrderedByKeyDescending(items) ==
    \A i, j \in 1..Len(items) : i < j => StrLess(items[j][1], items[i][1])
AggReturned == agg_pc = "done" /\ agg_ret.ret # None

\* C13 (as stated): each of by_minister, by_department and by_year is
\* ordered by descending count, ties in first-seen order.
C13_AggregatesByCount ==
    AggReturned =>
        /\ OrderedByCount(agg_ret.ret.by_minister, agg_ret.ret.meetings, "minister")
        /\ OrderedByCount(agg_ret.ret.by_department, agg_ret.ret.meetings, "department")
        /\ OrderedByCount(agg_ret.ret.by_year, agg_ret.ret.meetings, "year")

\* C13 (amended): by_minister and by_department are ordered by descending
\* count, ties in first-seen order; by_year is ordered by year, the latest
\* year first, whatever the counts are.
C13_AggregateOrder ==
    AggReturned =>
        /\ OrderedByCount(agg_ret.ret.by_minister, agg_ret.ret.meetings, "minister")
        /\ OrderedByCount(agg_ret.ret.by_department, agg_ret.ret.meetings, "department")
        /\ OrderedByKeyDescending(agg_ret.ret.by_year)

\* a result whose most frequent minister was not the first one seen, and
\* whose later year has fewer meetings than its earlier year
C13_Witness ==
    /\ AggReturned
    /\ Len(agg_ret.ret.by_minister) = 2
    /\ agg_ret.ret.meetings[1]["minister"] # agg_ret.ret.by_minister[1][1]
    /\ Len(agg_ret.ret.by_year) = 2
    /\ agg_ret.ret.by_year[1][2] < agg_ret.ret.by_year[2][2]

IsDigits(s, n) ==
    /\ Len(s) = n
    /\ \A i \in 1..Len(s) : s[i] \in {"0", "1", "2", "3", "4", "5", "6", "7", "8", "9"}
\* the 4-digit year of a date written DD/MM/YYYY or YYYY-MM-DD, <<>> for
\* any other date
ParsedYear(date) ==
    LET slash == SplitOn(date, "/")
        dash == SplitOn(date, "-")
    IN IF Len(slash) = 3 /\ IsDigits(slash[1], 2) /\ IsDigits(slash[2], 2)
          /\ IsDigits(slash[3], 4)
       THEN slash[3]
       ELSE IF Len(dash) = 3 /\ IsDigits(dash[1], 4) /\ IsDigits(dash[2], 2)
               /\ IsDigits(dash[3], 2)
       THEN dash[1]
       ELSE <<>>
RECURSIVE SumCounts(_)
SumCounts(items) == IF items = <<>> THEN 0 ELSE items[1][2] + SumCounts(Tail(items))
\* the records of the snapshot that the term matches, in snapshot order
MatchedRecords ==
    PickPositions(agg_index.meetings,
                  {i \in 1..Len(agg_index.meetings) :
                      Contains(Lower(agg_term),
                               Lower(agg_index.meetings[i]["organisation"]))}, 1)
ItemSet(items) == {items[i] : i \in 1..Len(items)}

\* C14: meetings_count is the number of matched records, which all stay in
\* the record list; the counts of by_minister and of by_department each sum
\* to meetings_count; by_year counts exactly the matched records whose date
\* parses as DD/MM/YYYY or YYYY-MM-DD, each under its 4-digit year, and a
\* record with another date is counted in no by_year bucket.
C14_CountsConsistent ==
    AggReturned =>
        /\ agg_ret.ret.meetings = MatchedRecords
        /\ agg_ret.ret.meetings_count = Len(MatchedRecords)
        /\ SumCounts(agg_ret.ret.by_minister) = agg_ret.ret.meetings_count
        /\ SumCounts(agg_ret.ret.by_department) = agg_ret.ret.meetings_count
        /\ ItemSet(agg_ret.ret.by_year)
               = {<<y, Cardinality({i \in 1..Len(MatchedRecords) :
                                       ParsedYear(MatchedRecords[i]["date"]) = y})>> :
                     y \in {ParsedYear(MatchedRecords[i]["date"]) :
                               i \in 1..Len(MatchedRecords)} \ {<<>>}}

\* the records a search result holds (none when nothing is returned)
MatchedOf(result) ==
    IF result.outcome = "returned" /\ result.ret # None
    THEN {result.ret.meetings[i] : i \in 1..Len(result.ret.meetings)}
    ELSE {}

\* C15: the snapshot written by build_index, once loaded by load_uk_index,
\* answers every query with the same matched records as the snapshot
\* build_index holds in memory.
C15_SnapshotRoundTrip ==
    q_log.asked =>
        /\ q_log.from_file.outcome = q_log.in_memory.outcome
        /\ MatchedOf(q_log.from_file) = MatchedOf(q_log.in_memory)

\* the positions (from 0) of the records the linear scan of
\* search_uk_index matched
ScanPositions(result) == {i - 1 : i \in result.refs}

\* C16: the lookup by the inverted index (the query's lower-cased tokens
\* looked up in org_index, their postings intersected, the candidates
\* verified by substring) finds exactly the records that the full linear
\* substring scan finds.
C16_LookupEqualsScan ==
    q_log.asked => q_log.lookup = ScanPositions(q_log.in_memory)

\* whether every document of the build was fetched and parsed whole
AllDocumentsClean ==
    \A d \in 1..Len(b_docs) : b_docs[d].resolve = "ok" /\ b_docs[d].fail_at = 0
\* a record without the fields that tell where it came from
Content(m) == [k \in {"minister", "date", "organisation", "purpose", "department"} |-> m[k]]
FieldsOf(result) == IF result.ret = None THEN {} ELSE DOMAIN result.ret

\* C17: the live path and the index path cannot be told apart: over the same
\* rows and the same term they return the same matched records, the same
\* aggregates and the same set of result fields.
C17_LiveEqualsIndex ==
    (q_log.asked /\ AllDocumentsClean) =>
        /\ q_log.live.outcome = q_log.in_memory.outcome
        /\ {Content(m) : m \in MatchedOf(q_log.live)}
               = {Content(m) : m \in MatchedOf(q_log.in_memory)}
        /\ FieldsOf(q_log.live) = FieldsOf(q_log.in_memory)
        /\ (q_log.live.ret # None /\ q_log.in_memory.ret # None) =>
               /\ q_log.live.ret.by_minister = q_log.in_memory.ret.by_minister
               /\ q_log.live.ret.by_department = q_log.in_memory.ret.by_department
               /\ q_log.live.ret.by_year = q_log.in_memory.ret.by_year

\* the publications of the last n months (n times 30 days) before now
WithinMonths(publications, now, n) ==
    SelectSeq(publications,
              LAMBDA pub : "date" \in DOMAIN pub /\ now - pub.date <= n * 30)

\* C19: the recency window the caller chose is applied: a run_search with
\* uk_months_back = N, or a caller of search_uk_ministerial_meetings that
\* wants N months, has only the publications of the last N months (N times
\* 30 days) processed.
C19_CallerWindowApplied ==
    (win_pc = "done" /\ win_ret.entry \in {"run_search", "search_uk_ministerial_meetings"}) =>
        /\ win_ret.outcome = "returned"
        /\ win_ret.processed = WithinMonths(win_pubs, win_now, win_n)

\* C20: when several callers call load_uk_index at once while the snapshot
\* is not loaded, the source is read into a snapshot at most once and all
\* callers that get a snapshot get the same object; no caller finds loaded
\* set while data is still unset.
C20_LoadedOnce ==
    /\ con_loads <= 1
    /\ \A t, u \in DOMAIN con_pc :
           (con_pc[t] = "done" /\ con_pc[u] = "done"
            /\ con_ret[t] # None /\ con_ret[u] # None) => con_ret[t] = con_ret[u]
    /\ con_cache.loaded => con_cache.data # None

\* C28: the index cache is marked loaded only for a snapshot that was handed
\* to a caller: whenever load_uk_index returns None the cache is left
\* unloaded, so that no later call returns data from a load attempt that was
\* reported as failed.
C28_LoadedOnlyWhenReturned ==
    (last_call.op = "load_uk_index" /\ last_call.ret = None) => ~uk_index_cache.loaded

\* the whitespace-separated lower-case tokens of a record's organisation
TokensOf(m) ==
    LET words == Split(Lower(m["organisation"]))
    IN {words[k] : k \in 1..Len(words)}
IndexBuilt == b_index # None

\* C22: the inverted index of build_index is sound and complete for whole
\* tokens: every key is a lower-case token longer than 2 characters; every
\* position under a token is a position of the meetings list whose
\* organisation has that token; every such (token, position) pair is
\* present; each postings list is in ascending order.
C22_OrgIndexSoundComplete ==
    IndexBuilt =>
        /\ \A word \in DOMAIN b_index.org_index :
               /\ Len(word) > 2
               /\ Lower(word) = word
               /\ \A k \in 1..Len(b_index.org_index[word]) :
                      /\ b_index.org_index[word][k] \in 0..(Len(b_index.meetings) - 1)
                      /\ word \in TokensOf(b_index.meetings[b_index.org_index[word][k] + 1])
               /\ \A j, k \in 1..Len(b_index.org_index[word]) :
                      j < k => b_index.org_index[word][j] <= b_index.org_index[word][k]
        /\ \A i \in 1..Len(b_index.meetings) :
               \A word \in TokensOf(b_index.meetings[i]) :
                   Len(word) > 2 =>
                       /\ word \in DOMAIN b_index.org_index
                       /\ \E k \in 1..Len(b_index.org_index[word]) :
                              b_index.org_index[word][k] = i - 1

\* an index over two records that share the token "shell", one of which
\* also has the short token "uk"
C22_Witness ==
    /\ IndexBuilt
    /\ TermShell \in DOMAIN b_index.org_index
    /\ \E j, k \in 1..Len(b_index.org_index[TermShell]) :
           b_index.org_index[TermShell][j] < b_index.org_index[TermShell][k]
    /\ \E i \in 1..Len(b_index.meetings) :
           <<"u", "k">> \in TokensOf(b_index.meetings[i])

\* C23: each postings list of the inverted index is a set: a record position
\* occurs at most once under a token, also when the token occurs more than
\* once in the record's organisation.
C23_PostingsAreSets ==
    IndexBuilt =>
        \A word \in DOMAIN b_index.org_index :
            \A j, k \in 1..Len(b_index.org_index[word]) :
                j # k => b_index.org_index[word][j] # b_index.org_index[word][k]

\* the maximum a discovery is held to; discover_publications of the build
\* takes none, and is held to the larger one of the live discoveries
PageLimit(kind) == IF kind = "build" THEN TransparencyMaxResults ELSE MaxResultsOf(kind)

\* C25: discovery paging is bounded whatever the upstream answers: no page is
\* requested at an offset at or beyond the maximum, and the number of page
\* requests of one discovery is bounded by maximum / page size.
C25_PagingBounded ==
    /\ dsc_requests * BatchSize <= PageLimit(dsc_kind)
    /\ dsc_pc = "paging" => dsc_start < PageLimit(dsc_kind)

\* C26: build_index escalates a discovery error only when no publication
\* could be discovered; a failure on a later page, after earlier pages
\* returned publications, does not abort the build.
C26_EscalatesOnlyTotalFailure ==
    (dsc_kind = "build" /\ dsc_pc = "raised") => dsc_pubs = <<>>

\* the current call follows a discovery that found a publication
FollowsDiscovery ==
    /\ dsc_kind # "build"
    /\ dsc_pc \in {"paging", "save", "done"}
    /\ dsc_prev.called
    /\ dsc_prev.ret # <<>>

\* C27: discovery results are cached for 24 hours: a call less than 24
\* hours after a discovery that found a publication returns that discovery's
\* list and issues no network request; a call 24 hours or more after it
\* runs discovery again.
C27_DiscoveryCached ==
    FollowsDiscovery =>
        IF dsc_prev.next_at - dsc_prev.at < CacheHours
        THEN dsc_pc = "done" /\ dsc_requests = 0 /\ dsc_ret = dsc_prev.ret
        ELSE dsc_pc = "done" => dsc_requests > 0

UniqueUrls == {f_unique[i].url : i \in 1..Len(f_unique)}
TimesFetched(url) == Cardinality({i \in 1..Len(f_fetched) : f_fetched[i] = url})

\* C30: in a live search, two distinct CSV URLs of unique_csv_urls never have the
\* same cache key, so no URL is given the cache file of another URL.
C30_CacheKeysDistinct ==
    (f_kind = "live" /\ f_pc # "dedup") =>
        \A u1 \in UniqueUrls : \A u2 \in UniqueUrls :
            u1 # u2 => CacheKey(u1) # CacheKey(u2)

\* C24: once the loop over the unique CSV URLs is over, every distinct URL that
\* was discovered has been requested, and none has been requested twice.
C24_EachUrlFetchedOnce ==
    f_pc = "done" =>
        /\ \A i \in 1..Len(f_all) : TimesFetched(f_all[i].url) >= 1
        /\ \A i \in 1..Len(f_fetched) : TimesFetched(f_fetched[i]) = 1

\* C21: what a concurrent search reads from a cache file is a whole document:
\* the one a completed download stored, never an empty or cut-off file.
C21_ReaderSeesWholeFile ==
    f_seen # None =>
        \/ f_seen.content = OldContent
        \/ \E u \in UniqueUrls : f_seen.content = ContentOf(u)

====
